---- MODULE Spec2Model ----
(***************************************************************************)
(* EV charging-station recommender: the feature-engineering and scoring    *)
(* pipeline (backend/ml/recommend.py, modelTest.py, trainModel.py) and the *)
(* HTTP surface (backend/api.py) as state machines.                        *)
(*                                                                         *)
(* Numbers.  Station inputs (distance in km, connections, slots, power in  *)
(* kW, price) are integers.  A float is a record: Num(v) carries a         *)
(* fixed-point value in hundredths, NaN and Inf are IEEE not-a-number and  *)
(* infinity.  Regressor outputs are in thousandths of a rating point and   *)
(* rounded ratings in hundredths.                                          *)
(***************************************************************************)
EXTENDS Integers, Sequences, FiniteSets, TLC

(***************************************************************************)
(* Bounds of the model                                                     *)
(***************************************************************************)
MaxConnections == 2

MaxStations == 4

(***************************************************************************)
(* Floats                                                                  *)
(***************************************************************************)
Num(v) == [k |-> "num", v |-> v]

NaN == [k |-> "nan", v |-> 0]

Inf == [k |-> "inf", v |-> 0]

F(n) == Num(n * 100)

IsFinite(x) == x.k = "num"

IsNaN(x) == x.k = "nan"

\* IEEE division as numpy/pandas perform it on columns: x/0 is inf, 0/0 is nan.
FDiv(x, y) ==
    IF IsNaN(x) \/ IsNaN(y) THEN NaN
    ELSE IF x.k = "inf" THEN (IF y.k = "inf" THEN NaN ELSE Inf)
    ELSE IF y.k = "inf" THEN Num(0)
    ELSE IF y.v = 0 THEN (IF x.v = 0 THEN NaN ELSE Inf)
    ELSE Num((x.v * 100) \div y.v)

FMul(x, y) ==
    IF IsNaN(x) \/ IsNaN(y) THEN NaN
    ELSE IF x.k = "inf" \/ y.k = "inf"
         THEN (IF (x.k = "num" /\ x.v = 0) \/ (y.k = "num" /\ y.v = 0) THEN NaN ELSE Inf)
    ELSE Num((x.v * y.v) \div 100)

\* Series.fillna(0)
fillna0(x) == IF IsNaN(x) THEN Num(0) ELSE x

\* Series.replace([np.inf, -np.inf], 0)
replaceInf0(x) == IF x.k = "inf" THEN Num(0) ELSE x

(***************************************************************************)
(* Feature columns                                                         *)
(***************************************************************************)
\* The column order prepare_training_features builds (features.columns.tolist()).
TrainColumns ==
    << "distance_km", "distance_category", "available_slots", "total_connections",
       "max_power_kw", "price_per_kwh", "reliability_score", "charger_type_encoded",
       "battery_capacity", "is_price_sensitive", "availability_ratio", "price_per_km",
       "power_efficiency", "value_score" >>

TimeColumns == << "is_weekend", "hour_of_day" >>

Range(s) == { s[i] : i \in DOMAIN s }

Cell(c, x) == [col |-> c, val |-> x]

Cols(row) == [i \in DOMAIN row |-> row[i].col]

HasCol(row, c) == \E i \in DOMAIN row : row[i].col = c

ColIndex(row, c) == CHOOSE i \in DOMAIN row : row[i].col = c

ValOf(row, c) == row[ColIndex(row, c)].val

\* DataFrame[names]: the columns `names` in that order, KeyError when one is absent.
SelectColumns(row, names) ==
    IF \A i \in DOMAIN names : HasCol(row, names[i])
    THEN [ok |-> TRUE, row |-> [i \in DOMAIN names |-> row[ColIndex(row, names[i])]]]
    ELSE [ok |-> FALSE, row |-> << >>]

(***************************************************************************)
(* LabelEncoder: classes_ is the sorted set of fitted labels; transform of *)
(* a label that was not fitted raises ValueError.                          *)
(***************************************************************************)
Categories == {"slow", "fast", "superfast"}

\* A label outside the three categories the collector assigns.
UnseenCategory == "unknown"

AlphaRank(label) ==
    CASE label = "fast" -> 1
      [] label = "slow" -> 2
      [] label = "superfast" -> 3
      [] OTHER -> 4

EncoderKnows(enc, label) == label \in enc.classes

EncoderTransform(enc, label) ==
    Cardinality({ c \in enc.classes : AlphaRank(c) < AlphaRank(label) })

(***************************************************************************)
(* distance_category, as each path computes it                             *)
(***************************************************************************)
\* pd.cut(d, bins=[0, 5, 15, 30, 100], labels=[0, 1, 2, 3]): right-closed
\* intervals, the lowest edge excluded; outside every bin the result is NaN.
CutTrain(d) ==
    IF d > 0 /\ d <= 5 THEN F(0)
    ELSE IF d > 5 /\ d <= 15 THEN F(1)
    ELSE IF d > 15 /\ d <= 30 THEN F(2)
    ELSE IF d > 30 /\ d <= 100 THEN F(3)
    ELSE NaN

\* pd.cut(d, bins=[0, 5, 15, 100], labels=[1, 2, 3], include_lowest=True)
CutServe(d) ==
    IF d >= 0 /\ d <= 5 THEN F(1)
    ELSE IF d > 5 /\ d <= 15 THEN F(2)
    ELSE IF d > 15 /\ d <= 100 THEN F(3)
    ELSE NaN

\* 1 if d < 5 else (2 if d < 15 else 3)
CutScalar(d) == IF d < 5 THEN F(1) ELSE IF d < 15 THEN F(2) ELSE F(3)

(***************************************************************************)
(* The seeded generator.  np.random.seed(42) restarts a deterministic      *)
(* stream; MT42(k) stands for its k-th draw.                               *)
(***************************************************************************)
MT42(k) == (k * k * 7 + k * 3 + 5) % 13

\* np.random.randint(0, high) taken from draw k
randint(k, high) == MT42(k) % high

\* np.random.uniform(0.75, 0.95) taken from draw k, in hundredths
uniform_75_95(k) == 75 + (MT42(k) % 21)

(***************************************************************************)
(* Feature rows.  A station is a record                                    *)
(*   [id, distance, total_connections, available_slots, max_power_kw,      *)
(*    price, reliability_score, charger_category]                          *)
(* (price is usage_cost / simulated_price_per_kwh / price_paid_per_kwh,    *)
(* reliability_score is in hundredths); a row is a sequence of cells, one  *)
(* per column, in the order the code creates the columns.                  *)
(***************************************************************************)
\* prepare_training_features, one merged booking row.  The encoder is fitted on
\* the very column it transforms, so every label is known.  booking_date is a
\* '%Y-%m-%d' string, so dt.hour is 0.
prepare_training_row(st, user, enc, weekend, hasDate) ==
    LET d  == st.distance
        ar == FDiv(F(st.available_slots), F(st.total_connections))
        base ==
          << Cell("distance_km", F(d)),
             Cell("distance_category", CutTrain(d)),
             Cell("available_slots", F(st.available_slots)),
             Cell("total_connections", F(st.total_connections)),
             Cell("max_power_kw", F(st.max_power_kw)),
             Cell("price_per_kwh", F(st.price)),
             Cell("reliability_score", Num(st.reliability_score)),
             Cell("charger_type_encoded", F(EncoderTransform(enc, st.charger_category))),
             Cell("battery_capacity", F(user.battery_capacity)),
             Cell("is_price_sensitive", F(user.is_price_sensitive)),
             Cell("availability_ratio", ar),
             Cell("price_per_km", FMul(F(st.price), F(d))),
             Cell("power_efficiency", FDiv(F(st.max_power_kw), F(st.price))),
             Cell("value_score", FDiv(FMul(F(st.max_power_kw), ar), F(st.price))) >>
    IN IF hasDate
       THEN base \o << Cell("is_weekend", F(weekend)), Cell("hour_of_day", F(0)) >>
       ELSE base

\* recommend.predict_ratings, the row of station number i of n (before the
\* encoder and before features[feature_names]).  available_slots and
\* reliability_score are simulated from the seeded stream.
recommend_features(st, i, n, user, enc, feature_names) ==
    LET d   == st.distance
        s   == randint(i, st.total_connections + 1)
        ar  == fillna0(FDiv(F(s), F(st.total_connections)))
        pe  == fillna0(replaceInf0(FDiv(F(st.max_power_kw), F(st.price))))
        base ==
          << Cell("distance_km", F(d)),
             Cell("available_slots", F(s)),
             Cell("total_connections", F(st.total_connections)),
             Cell("max_power_kw", F(st.max_power_kw)),
             Cell("price_per_kwh", F(st.price)),
             Cell("reliability_score", Num(uniform_75_95(n + i))),
             Cell("charger_type_encoded", F(EncoderTransform(enc, st.charger_category))),
             Cell("battery_capacity", F(user.battery_capacity)),
             Cell("is_price_sensitive", F(user.is_price_sensitive)),
             Cell("distance_category", CutServe(d)),
             Cell("availability_ratio", ar),
             Cell("price_per_km", FMul(F(st.price), F(d))),
             Cell("power_efficiency", pe),
             Cell("value_score", fillna0(FMul(pe, ar))) >>
    IN IF "is_weekend" \in Range(feature_names) /\ "hour_of_day" \in Range(feature_names)
       THEN base \o << Cell("is_weekend", F(0)), Cell("hour_of_day", F(14)) >>
       ELSE base

\* EVRecommenderTester._get_ml_recommendations: feature_data of one station.
tester_feature_data(st, user, enc, feature_names) ==
    LET d  == st.distance
        c  == st.price
        tc == st.total_connections
        pe == IF c = 0 THEN Num(0) ELSE FDiv(F(st.max_power_kw), F(c))
        vs == IF c = 0 THEN Num(0)
              ELSE IF tc = 0 THEN Num(0)
              ELSE FDiv(FMul(F(st.max_power_kw), FDiv(F(st.available_slots), F(tc))), F(c))
        base ==
          << Cell("distance_km", F(d)),
             Cell("distance_category", CutScalar(d)),
             Cell("available_slots", F(st.available_slots)),
             Cell("total_connections", F(tc)),
             Cell("max_power_kw", F(st.max_power_kw)),
             Cell("price_per_kwh", F(c)),
             Cell("reliability_score", Num(st.reliability_score)),
             Cell("charger_type_encoded", F(EncoderTransform(enc, st.charger_category))),
             Cell("battery_capacity", F(user.battery_capacity)),
             Cell("is_price_sensitive", F(user.is_price_sensitive)),
             Cell("availability_ratio",
                  IF tc # 0 THEN FDiv(F(st.available_slots), F(tc)) ELSE Num(0)),
             Cell("price_per_km", FMul(F(c), F(d))),
             Cell("power_efficiency", pe),
             Cell("value_score", vs) >>
    IN IF "is_weekend" \in Range(feature_names) /\ "hour_of_day" \in Range(feature_names)
       THEN base \o << Cell("is_weekend", F(0)), Cell("hour_of_day", F(12)) >>
       ELSE base

\* _get_ml_recommendations: a column of feature_names absent from feature_df is
\* created with 0, then feature_df[feature_names].
tester_align(row, feature_names) ==
    [i \in DOMAIN feature_names |->
        IF HasCol(row, feature_names[i])
        THEN row[ColIndex(row, feature_names[i])]
        ELSE Cell(feature_names[i], Num(0))]

\* EVRecommendationModelTrainer.predict_station_rating: the positional array.
\* price_per_km, power_efficiency and value_score are read from the caller's
\* station_features (sf.price_per_km, ...); a / b on Python numbers raises
\* ZeroDivisionError when b is 0.
trainer_feature_vector(sf, user, enc, feature_names) ==
    LET d == sf.distance
        base ==
          << Cell("distance_km", F(d)),
             Cell("distance_category", CutScalar(d)),
             Cell("available_slots", F(sf.available_slots)),
             Cell("total_connections", F(sf.total_connections)),
             Cell("max_power_kw", F(sf.max_power_kw)),
             Cell("price_per_kwh", F(sf.price)),
             Cell("reliability_score", Num(sf.reliability_score)),
             Cell("charger_type_encoded", F(EncoderTransform(enc, sf.charger_category))),
             Cell("battery_capacity", F(user.battery_capacity)),
             Cell("is_price_sensitive", F(user.is_price_sensitive)),
             Cell("availability_ratio", FDiv(F(sf.available_slots), F(sf.total_connections))),
             Cell("price_per_km", sf.price_per_km),
             Cell("power_efficiency", sf.power_efficiency),
             Cell("value_score", sf.value_score) >>
    IN IF Len(feature_names) > 14
       THEN base \o << Cell("is_weekend", F(0)), Cell("hour_of_day", F(12)) >>
       ELSE base

(***************************************************************************)
(* Scaler and regressor.  A fitted StandardScaler is [n, run]: the number  *)
(* of features it was fitted on and the training run (or artifact) that    *)
(* fitted it; transform raises ValueError on another width or on an        *)
(* infinity and lets NaN through (its statistics are taken as mean 0,      *)
(* scale 1).  A fitted regressor is [n, run, bias, slope]; predict raises  *)
(* ValueError on another width or on NaN, and otherwise returns            *)
(* bias + slope * x[1], in thousandths.                                    *)
(***************************************************************************)
ScalerAccepts(scaler, row) ==
    /\ scaler.run # 0
    /\ Len(row) = scaler.n
    /\ \A i \in DOMAIN row : row[i].val.k # "inf"

RegressorAccepts(model, row) ==
    /\ model.run # 0
    /\ Len(row) = model.n
    /\ \A i \in DOMAIN row : row[i].val.k = "num"

RegressorPredict(model, row) == model.bias + ((model.slope * row[1].val.v) \div 100)

Min(a, b) == IF a < b THEN a ELSE b

Max(a, b) == IF a > b THEN a ELSE b

\* A prediction passed on as the regressor gave it.
Unclamped(r) == r

\* np.clip(r, 1, 5) / max(1.0, min(5.0, r)), on thousandths
Clamp(r) == Max(1000, Min(5000, r))

\* round(r, 2): thousandths to hundredths, ties to even
Round2(r) ==
    LET q == r \div 10
        m == r % 10
    IN IF m < 5 THEN q
       ELSE IF m > 5 THEN q + 1
       ELSE IF q % 2 = 0 THEN q ELSE q + 1

(***************************************************************************)
(* Ordering by a key, descending.  sort_values(ascending=False) and        *)
(* nlargest keep the first of equal keys first.                            *)
(***************************************************************************)
RECURSIVE InsertDesc(_, _, _)
InsertDesc(sorted, x, key) ==
    IF sorted = << >> THEN << x >>
    ELSE IF Head(sorted)[key] >= x[key]
         THEN << Head(sorted) >> \o InsertDesc(Tail(sorted), x, key)
         ELSE << x >> \o sorted

\* The rows in the order they came.
Unsorted(s, key) == s

RECURSIVE SortDesc(_, _)
SortDesc(s, key) ==
    IF s = << >> THEN << >>
    ELSE InsertDesc(SortDesc(SubSeq(s, 1, Len(s) - 1), key), s[Len(s)], key)

\* DataFrame.head(k)
head(s, k, key) == SubSeq(s, 1, Min(k, Len(s)))

\* DataFrame.nlargest(k, key)
nlargest(s, k, key) == SubSeq(SortDesc(s, key), 1, Min(k, Len(s)))

IsNonIncreasing(s, key) == \A i \in 1..(Len(s) - 1) : s[i][key] >= s[i + 1][key]

(***************************************************************************)
(* State                                                                   *)
(***************************************************************************)
VARIABLES
    \* the feature formulas applied to one input
    fin, fout,
    \* recommend.py: one run of the serving script
    stdin, modelFile, pc, stations_df, user_preferences, model_package,
    stdout, stderr, exit_status,
    \* EVRecommendationModelTrainer (the `trainer` of api.py), the training CSV
    \* files, the call in progress, the runs started, the last response
    model, scaler, charger_encoder, feature_names, is_trained,
    trainingData, call, runs, response,
    \* how the trainer is driven: by api.py's endpoints ("http") or by calls from
    \* a script ("direct")
    surface,
    \* modelTest.py: EVRecommenderTester (its trainer is the trainer above), the
    \* arguments of its latest call and what the call returned
    model_loaded, candidates, user_prefs, recommendations,
    \* dataCollector.py: the records the station API answered with, what the
    \* latest and the previous fetch returned, numpy's global generator, and the
    \* latest booking _simulate_user_bookings generated
    raw_data, processed, previous, rng, booking,
    \* generate_booking_interactions: the users it was given, the bookings it
    \* has collected, and where its loops stand
    users_df, bookings, cursor,
    \* the vectors the latest scoring gave to scaler.transform, with the stored
    \* feature_names
    handoffs

featVars == << fin, fout >>

serveVars == << stdin, modelFile, pc, stations_df, user_preferences, model_package,
                stdout, stderr, exit_status >>

trainerVars == << model, scaler, charger_encoder, feature_names, is_trained,
                  trainingData, call, runs, response, surface >>

\* recommend.py's state without the artifact file, which the trainer writes
serveRest == << stdin, pc, stations_df, user_preferences, model_package,
                stdout, stderr, exit_status >>

testerVars == << model_loaded, candidates, user_prefs, recommendations >>

generationVars == << users_df, bookings, cursor >>

collectorVars == << raw_data, processed, previous, rng, booking, generationVars >>

vars == << featVars, serveVars, trainerVars, testerVars, collectorVars, handoffs >>

(***************************************************************************)
(* Model artifacts.  A package is the dict save_trained_model dumps; absent *)
(* names the keys the dict found in a file lacks.                          *)
(***************************************************************************)
\* A column no inference path computes.
ForeignColumn == "station_age"

\* The stored lists an artifact may carry: the two prepare_training_features
\* produces (without and with booking_date), one with a column inference does
\* not compute, and one in another order.
StoredFeatureNames ==
    { TrainColumns,
      TrainColumns \o TimeColumns,
      TrainColumns \o << ForeignColumn >>,
      TrainColumns \o << "hour_of_day", "is_weekend" >> }

\* kind is type(model).__name__, "none" for None; run 0 with n 0 is a regressor
\* object that was constructed and never fitted.
Regressor(kind, n, run, shape) ==
    [kind |-> kind, n |-> n, run |-> run, bias |-> shape[1], slope |-> shape[2]]

NoModel == Regressor("none", 0, 0, << 0, 0 >>)

Unfitted(kind) == Regressor(kind, 0, 0, << 0, 0 >>)

\* StandardScaler() / LabelEncoder() before any fit, or after a fit that raised
\* once _reset() had run.
UnfittedScaler == [n |-> 0, run |-> 0]

UnfittedEncoder == [classes |-> {}, run |-> 0]

\* Fitted regressors, by their response to the first feature: outputs above 5,
\* below 1 and in between, with third decimals to round.
RegressorShapes == { << 5600, 0 - 40 >>, << 0 - 255, 25 >>, << 3335, 0 >> }

Package(names, classes, run, shape) ==
    [ model           |-> Regressor("RandomForestRegressor", Len(names), run, shape),
      scaler          |-> [n |-> Len(names), run |-> run],
      charger_encoder |-> [classes |-> classes, run |-> run],
      feature_names   |-> names,
      absent          |-> {} ]

NoPackage ==
    [ model |-> NoModel, scaler |-> UnfittedScaler, charger_encoder |-> UnfittedEncoder,
      feature_names |-> << >>, absent |-> {} ]

\* What joblib.load finds at a path.
FileMissing == [state |-> "missing", pkg |-> NoPackage]

FileCorrupt == [state |-> "corrupt", pkg |-> NoPackage]

FileOk(pkg) == [state |-> "ok", pkg |-> pkg]

(***************************************************************************)
(* dataCollector.py: EVDataCollector                                       *)
(***************************************************************************)

\* Bounds: the records of one API answer, and the draws another caller may
\* have taken from numpy's global generator before the collector runs.
MaxRecords == 2

MaxDraws == 2

\* A DataFrame of stations: its rows, and whether it has columns at all
\* (pd.DataFrame() and pd.DataFrame([]) have none).
Frame(rows) == [rows |-> rows, columns |-> TRUE]

EmptyFrame == [rows |-> << >>, columns |-> FALSE]

\* A JSON value that may be missing from its object: station.get(...) is None.
Absent == [present |-> FALSE, v |-> 0]

Some(v) == [present |-> TRUE, v |-> v]

\* PowerKW of a connection that carries none (null or missing key).
NoPower == -1

\* One record of the API answer.  Powers are in tenths of a kW, distances in
\* km as _calculate_distance gives them.  defect "title_null" is a record
\* whose AddressInfo.Title is null (the [:50] slice raises TypeError),
\* "not_object" a list element that is not a JSON object (null).
RawStation(id, lat, lng, powers, operational, operator, km, defect) ==
    [ID |-> id, Latitude |-> lat, Longitude |-> lng, Connections |-> powers,
     IsOperational |-> operational, Operator |-> operator, km |-> km, defect |-> defect]

RawPool ==
    { RawStation(1, Some(19), Some(72), << 500, 220 >>, TRUE, "Tata Power", 2, "none"),
      RawStation(1, Some(19), Some(72), << 70 >>, FALSE, "Unknown", 2, "none"),
      RawStation(2, Some(18), Some(73), << 499 >>, TRUE, "Unknown", 9, "none"),
      RawStation(2, Some(18), Some(73), << >>, TRUE, "Ather", 9, "none"),
      RawStation(3, Some(0), Some(73), << 220 >>, TRUE, "BPCL", 30, "none"),
      RawStation(4, Absent, Some(73), << 220 >>, TRUE, "Unknown", 30, "none"),
      RawStation(5, Some(18), Some(73), << 220 >>, TRUE, "Unknown", 12, "title_null"),
      RawStation(6, Some(18), Some(73), << >>, TRUE, "Unknown", 12, "not_object"),
      RawStation(7, Some(17), Some(74), << 220, 0 >>, TRUE, "ChargePoint", 4, "none"),
      RawStation(8, Some(17), Some(75), << 219, NoPower >>, TRUE, "Unknown", 25, "none") }

RECURSIVE BatchesUpTo(_, _)
BatchesUpTo(S, n) ==
    IF n = 0 THEN { << >> }
    ELSE LET shorter == BatchesUpTo(S, n - 1)
         IN  shorter \cup { Append(q, x) : q \in { s \in shorter : Len(s) = n - 1 }, x \in S }

RawBatches == BatchesUpTo(RawPool, MaxRecords)

\* Python's truthiness of a coordinate: None and 0 are both falsy.
Truthy(c) == c.present /\ c.v # 0

\* total_connections = len(connections) if connections else 1
connection_count(powers) == Len(powers)

total_connections(powers) == IF powers # << >> THEN Len(powers) ELSE 1

\* for conn in connections: power = conn.get('PowerKW') or 0;
\*                          max_power_kw = max(max_power_kw, power)
RECURSIVE scan_max_power(_, _)
scan_max_power(powers, acc) ==
    IF powers = << >> THEN acc
    ELSE LET power == IF Head(powers) = NoPower THEN 0 ELSE Head(powers)
         IN  scan_max_power(Tail(powers), Max(acc, power))

\* if max_power_kw == 0: max_power_kw = 7
DefaultPowerKW == 70

max_power_kw(powers) ==
    LET m == scan_max_power(powers, 0) IN IF m = 0 THEN DefaultPowerKW ELSE m

\* The thresholds of the category, in tenths of a kW.
SuperfastKW == 500

FastKW == 220

charger_category_above(p) ==
    IF p > SuperfastKW THEN "superfast" ELSE IF p > FastKW THEN "fast" ELSE "slow"

charger_category(p) ==
    IF p >= SuperfastKW THEN "superfast" ELSE IF p >= FastKW THEN "fast" ELSE "slow"

\* What the body of the per-record try block does with one record:
\* "abort": the except handler itself raises (station.get on a non-object),
\* "skip":  continue (coordinate check) or an exception caught and logged,
\* "keep":  station_data is appended.
transform_outcome(station) ==
    IF station.defect = "not_object" THEN "abort"
    ELSE IF ~Truthy(station.Latitude) \/ ~Truthy(station.Longitude) THEN "skip"
    ELSE IF station.defect = "title_null" THEN "skip"
    ELSE "keep"

station_data(station) ==
    [station_id |-> station.ID,
     lat |-> station.Latitude.v, lng |-> station.Longitude.v,
     distance_from_search_center |-> station.km,
     operator |-> station.Operator,
     total_connections |-> total_connections(station.Connections),
     max_power_kw |-> max_power_kw(station.Connections),
     charger_category |-> charger_category(max_power_kw(station.Connections)),
     is_operational |-> IF station.IsOperational THEN 1 ELSE 0]

RECURSIVE processed_stations(_)
processed_stations(batch) ==
    IF batch = << >> THEN << >>
    ELSE IF transform_outcome(Head(batch)) = "keep"
         THEN << station_data(Head(batch)) >> \o processed_stations(Tail(batch))
         ELSE processed_stations(Tail(batch))

\* df.drop_duplicates(subset=['station_id']): the first row of each id stays.
keep_duplicates(rows) == rows

RECURSIVE drop_duplicates(_)
drop_duplicates(rows) ==
    IF rows = << >> THEN << >>
    ELSE LET front == drop_duplicates(SubSeq(rows, 1, Len(rows) - 1))
             last  == rows[Len(rows)]
         IN  IF \E i \in DOMAIN front : front[i].station_id = last.station_id
             THEN front ELSE Append(front, last)

\* df[df['is_operational'] == 1]
RECURSIVE only_operational(_)
only_operational(rows) ==
    IF rows = << >> THEN << >>
    ELSE IF Head(rows).is_operational = 1
         THEN << Head(rows) >> \o only_operational(Tail(rows))
         ELSE only_operational(Tail(rows))

\* numpy's global generator: the stream it is on and how many draws were
\* taken from it.  Stream 42 is the one np.random.seed(42) starts; the
\* interpreter starts on a stream seeded from the operating system.
Entropy(stream, k) == (k * 5 + stream * 3 + 1) % 13

Draw(g, k) == IF g.stream = 42 THEN MT42(g.pos + k) ELSE Entropy(g.stream, g.pos + k)

Advance(g, n) == [stream |-> g.stream, pos |-> g.pos + n]

seed_kept(g) == g

\* np.random.seed(42)
seed42(g) == [stream |-> 42, pos |-> 0]

\* base_prices, in hundredths of a rupee: (low, high) per category.
base_prices(category) ==
    IF category = "slow" THEN << 600, 1000 >>
    ELSE IF category = "fast" THEN << 800, 1300 >>
    ELSE IF category = "superfast" THEN << 1000, 1600 >>
    ELSE << 700, 1200 >>

\* The draws are 13 equally likely values of the unit interval.
Draws == 13

uniform(lo, hi, d) == lo + ((hi - lo) * d) \div Draws

MajorOperators == { "Tata Power", "Ather", "ChargePoint", "BPCL" }

\* _add_simulated_realtime_data: five vectorised draws of len(df) values
\* each, taken in this order from the generator right after seeding it.
simulated_row(row, i, n, g) ==
    [station_id |-> row.station_id, lat |-> row.lat, lng |-> row.lng,
     distance_from_search_center |-> row.distance_from_search_center, operator |-> row.operator,
     total_connections |-> row.total_connections,
     max_power_kw |-> row.max_power_kw,
     charger_category |-> row.charger_category,
     is_operational |-> row.is_operational,
     available_slots |-> Draw(g, i) % (row.total_connections + 1),
     simulated_price_per_kwh |->
         uniform(base_prices(row.charger_category)[1],
                 base_prices(row.charger_category)[2], Draw(g, n + i)),
     simulated_avg_wait_minutes |-> 5 + (Draw(g, 2 * n + i) % 40),
     reliability_score |->
         IF row.operator \in MajorOperators
         THEN uniform(85, 98, Draw(g, 3 * n + i))
         ELSE uniform(65, 85, Draw(g, 4 * n + i))]

add_simulated_realtime_data(rows, g) ==
    [i \in 1..Len(rows) |-> simulated_row(rows[i], i, Len(rows), seed42(g))]

generator_after(rows, g) == Advance(seed42(g), 5 * Len(rows))

\* What a call of the collector left behind: nothing yet, a DataFrame, or an
\* exception that left the method; and the generator the call started from.
NotFetched == [kind |-> "none", frame |-> EmptyFrame, started |-> [stream |-> 0, pos |-> 0]]

Fetched(frame, g) == [kind |-> "frame", frame |-> frame, started |-> g]

FetchRaised(g) == [kind |-> "raised", frame |-> EmptyFrame, started |-> g]

\* _process_raw_stations(raw_data, ...).  A record that is not an object makes
\* the except handler's own station.get(...) raise.  With no record kept,
\* pd.DataFrame([]) has no columns and the column lookups that follow
\* (subset=['station_id'], df['is_operational']) raise KeyError.
process_raw_stations(batch, g) ==
    IF \E i \in DOMAIN batch : transform_outcome(batch[i]) = "abort"
    THEN FetchRaised(g)
    ELSE IF processed_stations(batch) = << >>
    THEN FetchRaised(g)
    ELSE Fetched(Frame(add_simulated_realtime_data(
                           only_operational(drop_duplicates(processed_stations(batch))), g)), g)

process_raw_stations_rng(batch, g) ==
    IF process_raw_stations(batch, g).kind = "frame"
    THEN generator_after(process_raw_stations(batch, g).frame.rows, g)
    ELSE g

\* Stations as generate_booking_interactions receives them (prices in
\* hundredths of a rupee), and the users bookings are simulated for.
BookingStation(id, connections, price, wait, operator) ==
    [station_id |-> id, total_connections |-> connections,
     simulated_price_per_kwh |-> price, simulated_avg_wait_minutes |-> wait,
     operator |-> operator]

BookingStations ==
    { BookingStation(1, 2, 1400, 20, "Tata Power"),
      BookingStation(2, 4, 700, 9, "Unknown"),
      BookingStation(3, 1, 800, 30, "Ather Grid"),
      BookingStation(4, 3, 1300, 12, "Unknown") }

BookingUsers == { [user_id |-> 1, is_price_sensitive |-> 1],
                  [user_id |-> 2, is_price_sensitive |-> 0] }

\* distance_to_user of the chosen station, in km.
BookingDistances == { 1, 3, 5, 8, 12, 20, 25, 60 }

\* np.random.normal(0, 0.4), in thousandths; the tails are unbounded.
NoiseValues == { -4000, -800, -400, 0, 400, 800, 4000 }

\* 'Tata' in station['operator'] or 'Ather' in station['operator']
ReputedOperators == { "Tata Power", "Ather Grid" }

\* A rating whose distance bands include their upper ends.
base_rating_inclusive(user, station, distance, available_slots, price) ==
    3000
    + (IF distance <= 3 THEN 1000 ELSE IF distance <= 8 THEN 500
       ELSE IF distance >= 20 THEN -700 ELSE 0)
    + (IF available_slots = 0 THEN -1500 ELSE IF available_slots >= 3 THEN 600
       ELSE IF available_slots = 1 THEN -200 ELSE 0)
    + (IF user.is_price_sensitive = 1
       THEN (IF price < 800 THEN 500 ELSE IF price > 1300 THEN -600 ELSE 0)
       ELSE 0)
    + (IF station.operator \in ReputedOperators THEN 200 ELSE 0)

\* base_rating before the noise, in thousandths.
base_rating(user, station, distance, available_slots, price) ==
    3000
    + (IF distance < 3 THEN 1000 ELSE IF distance < 8 THEN 500
       ELSE IF distance > 20 THEN -700 ELSE 0)
    + (IF available_slots = 0 THEN -1500 ELSE IF available_slots >= 3 THEN 600
       ELSE IF available_slots = 1 THEN -200 ELSE 0)
    + (IF user.is_price_sensitive = 1
       THEN (IF price < 800 THEN 500 ELSE IF price > 1300 THEN -600 ELSE 0)
       ELSE 0)
    + (IF station.operator \in ReputedOperators THEN 200 ELSE 0)

\* round(x, 1): thousandths to tenths.
Round1(x) == (x + 50) \div 100

calculate_user_rating_unclamped(user, station, distance, available_slots, price, noise) ==
    Round1(base_rating(user, station, distance, available_slots, price) + noise)

\* _calculate_user_rating: round(max(1.0, min(5.0, final_rating)), 1), in tenths.
calculate_user_rating(user, station, distance, available_slots, price, noise) ==
    Round1(Max(1000, Min(5000,
        base_rating(user, station, distance, available_slots, price) + noise)))

booking_always_completed(available_slots) == 1

\* 'booking_completed': 1 if available_slots > 0 else 0
booking_completed(available_slots) == IF available_slots > 0 THEN 1 ELSE 0

\* The booking dictionary of one iteration of _simulate_user_bookings, and with
\* it base_rating, the local of _calculate_user_rating before the noise is
\* added (no key of the dictionary).
make_booking(user, station, distance, available_slots, noise) ==
    [user_id |-> user.user_id,
     station_id |-> station.station_id,
     distance_km |-> distance,
     available_slots_at_booking |-> available_slots,
     price_paid_per_kwh |-> station.simulated_price_per_kwh,
     total_connections |-> station.total_connections,
     user_rating |-> calculate_user_rating(user, station, distance, available_slots,
                                           station.simulated_price_per_kwh, noise),
     booking_completed |-> booking_completed(available_slots),
     wait_time_minutes |-> IF available_slots > 0
                           THEN station.simulated_avg_wait_minutes ELSE 0,
     base_rating |-> base_rating(user, station, distance, available_slots,
                                 station.simulated_price_per_kwh)]

NoBooking ==
    [user_id |-> 0, station_id |-> 0, distance_km |-> 0, available_slots_at_booking |-> 0,
     price_paid_per_kwh |-> 0, total_connections |-> 0, user_rating |-> 0,
     booking_completed |-> 0, wait_time_minutes |-> 0, base_rating |-> 0]

\* Before generate_booking_interactions is called.
NoCursor == [phase |-> "idle", user |-> 0, booking_num |-> 0]

GenerationIdle == users_df = << >> /\ bookings = << >> /\ cursor = NoCursor

CollectorIdle ==
    /\ GenerationIdle
    /\ raw_data = << >>
    /\ processed = NotFetched
    /\ previous = NotFetched
    /\ rng = [stream |-> 0, pos |-> 0]
    /\ booking = NoBooking

collectorFrame == << generationVars, featVars, serveVars, trainerVars, testerVars, handoffs >>

\* Another caller of np.random draws from the global generator.
other_draws ==
    /\ surface \in {"collector", "bookings", "generation"}
    /\ rng.pos < MaxDraws
    /\ rng' = Advance(rng, 1)
    /\ UNCHANGED << raw_data, processed, previous, booking, collectorFrame >>

\* fetch_stations_by_location: the request succeeded and its JSON is raw_data.
fetch_stations_by_location ==
    /\ surface = "collector"
    /\ previous' = processed
    /\ processed' = IF raw_data = << >> THEN Fetched(EmptyFrame, rng)
                    ELSE process_raw_stations(raw_data, rng)
    /\ rng' = IF raw_data = << >> THEN rng ELSE process_raw_stations_rng(raw_data, rng)
    /\ UNCHANGED << raw_data, booking, collectorFrame >>

\* fetch_stations_by_location: the request timed out, failed, or its body was
\* not JSON: the except clauses return pd.DataFrame().
fetch_request_failed ==
    /\ surface = "collector"
    /\ previous' = processed
    /\ processed' = Fetched(EmptyFrame, rng)
    /\ UNCHANGED << raw_data, rng, booking, collectorFrame >>

CollectorNext == other_draws \/ fetch_stations_by_location \/ fetch_request_failed

\* One iteration of the loop of _simulate_user_bookings: a station within
\* 50 km is selected, and the selection, the days, the free slots and the
\* noise are drawn from the global generator, which runs on a stream nothing
\* here has seeded.
simulate_user_booking ==
    /\ surface = "bookings"
    /\ rng.pos < MaxDraws
    /\ \E user \in BookingUsers, station \in BookingStations,
          distance \in BookingDistances, noise \in NoiseValues :
          /\ distance < 50
          /\ \E available_slots \in 0..station.total_connections :
                booking' = make_booking(user, station, distance, available_slots, noise)
    /\ rng' = Advance(rng, 4)
    /\ UNCHANGED << raw_data, processed, previous, collectorFrame >>

BookingsNext == other_draws \/ simulate_user_booking

\* generate_booking_interactions(stations_df, users_df, interactions_per_user):
\* the bound is interactions_per_user.
InteractionsPerUser == 2

\* stations_df, in row order.
GenStations == [i \in 1..Cardinality(BookingStations) |->
                   CHOOSE s \in BookingStations : s.station_id = i]

\* The haversine distance from a user's home to each station, in km.
HomeDistances ==
    { [i \in 1..Cardinality(BookingStations) |-> 60],
      [i \in 1..Cardinality(BookingStations) |-> 5],
      [i \in 1..Cardinality(BookingStations) |-> IF i = 2 THEN 49 ELSE 50],
      [i \in 1..Cardinality(BookingStations) |-> IF i \in {1, 3} THEN 12 ELSE 75] }

GenUser(id, sensitive, km) == [user_id |-> id, is_price_sensitive |-> sensitive, km |-> km]

GenUserFrames == { << GenUser(1, 1, a), GenUser(2, 0, b) >> : a, b \in HomeDistances }

all_stations(user) == GenStations

\* stations_with_distance[stations_with_distance['distance_to_user'] < 50]
accessible_stations(user) ==
    SelectSeq(GenStations, LAMBDA s : user.km[s.station_id] < 50)

\* _select_station_realistically: np.random.choice over the accessible rows.
select_station_realistically(accessible, g) == accessible[(Draw(g, 1) % Len(accessible)) + 1]

\* np.random.normal(0, 0.4) taken from a draw, in thousandths.
normal_noise(d) == ((d % 7) - 3) * 400

\* The booking of iteration booking_num for a user, from the generator g.
generated_booking(user, booking_num, g) ==
    LET station == select_station_realistically(accessible_stations(user), g)
        slots   == Draw(g, 3) % (station.total_connections + 1)
    IN  [booking_id |-> << user.user_id, booking_num, station.station_id >>,
         booking |-> make_booking(user, station, user.km[station.station_id], slots,
                                  normal_noise(Draw(g, 4)))]

generationFrame ==
    << raw_data, processed, previous, featVars, serveVars, trainerVars, testerVars, handoffs >>

\* generate_booking_interactions is called: bookings = []
begin_generation ==
    /\ surface = "generation"
    /\ cursor.phase = "idle"
    /\ cursor' = [phase |-> "users", user |-> 1, booking_num |-> 0]
    /\ bookings' = << >>
    /\ UNCHANGED << users_df, rng, booking, generationFrame >>

\* _simulate_user_bookings for a user with no station within 50 km:
\* `if len(accessible_stations) == 0: return bookings`
simulate_user_without_stations ==
    /\ surface = "generation"
    /\ cursor.phase = "users" /\ cursor.user <= Len(users_df)
    /\ accessible_stations(users_df[cursor.user]) = << >>
    /\ cursor' = [phase |-> "users", user |-> cursor.user + 1, booking_num |-> 0]
    /\ UNCHANGED << users_df, bookings, rng, booking, generationFrame >>

\* One iteration of `for booking_num in range(n_bookings)`; after the last
\* one the bookings are returned and the next user follows.
simulate_user_bookings ==
    /\ surface = "generation"
    /\ cursor.phase = "users" /\ cursor.user <= Len(users_df)
    /\ accessible_stations(users_df[cursor.user]) # << >>
    /\ cursor.booking_num < InteractionsPerUser
    /\ booking' = generated_booking(users_df[cursor.user], cursor.booking_num, rng).booking
    /\ bookings' = Append(bookings,
                          generated_booking(users_df[cursor.user], cursor.booking_num, rng))
    /\ rng' = Advance(rng, 4)
    /\ cursor' = IF cursor.booking_num + 1 = InteractionsPerUser
                  THEN [phase |-> "users", user |-> cursor.user + 1, booking_num |-> 0]
                  ELSE [cursor EXCEPT !.booking_num = cursor.booking_num + 1]
    /\ UNCHANGED << users_df, generationFrame >>

\* bookings_df = pd.DataFrame(bookings); bookings_df.to_csv(...); return
save_bookings ==
    /\ surface = "generation"
    /\ cursor.phase = "users" /\ cursor.user > Len(users_df)
    /\ cursor' = [cursor EXCEPT !.phase = "saved"]
    /\ UNCHANGED << users_df, bookings, rng, booking, generationFrame >>

GenerationNext ==
    \/ other_draws
    \/ begin_generation
    \/ simulate_user_without_stations
    \/ simulate_user_bookings
    \/ save_bookings

(***************************************************************************)
(* recommend.py                                                            *)
(***************************************************************************)
\* Candidate stations of a request, as the Node.js backend sends them.
ServeStation(id, d, tc, p, c, cat) ==
    [id |-> id, distance |-> d, total_connections |-> tc, max_power_kw |-> p,
     price |-> c, charger_category |-> cat]

ServePool ==
    { ServeStation(1, 1, MaxConnections, 60, 12, "superfast"),
      ServeStation(2, 10, 1, 22, 9, "fast"),
      ServeStation(3, 40, 0, 7, 0, "slow"),
      ServeStation(4, 5, 1, 7, 8, UnseenCategory) }

RECURSIVE SeqsUpTo(_, _)
SeqsUpTo(S, n) ==
    IF n = 0 THEN { << >> }
    ELSE LET shorter == SeqsUpTo(S, n - 1)
         IN shorter \cup { Append(s, x) : s \in { q \in shorter : Len(q) = n - 1 }, x \in S }

\* user_prefs.get('battery_capacity_kwh', 45), user_prefs.get('is_price_sensitive', 0)
ServeUsers == { [battery_capacity |-> 45, is_price_sensitive |-> 0],
                [battery_capacity |-> 72, is_price_sensitive |-> 1] }

ServeFiles ==
    { FileMissing, FileCorrupt }
    \cup { FileOk(Package(names, Categories, 0 - 1, shape)) :
             names \in StoredFeatureNames, shape \in RegressorShapes }


NoUser == [battery_capacity |-> 0, is_price_sensitive |-> 0]

\* load_model(path): joblib.load, and in both except clauses
\* print_error(..., file=sys.stderr), which passes file= twice to print and so
\* raises TypeError out of the handler.
load_model(file) ==
    IF file.state = "ok"
    THEN [raised |-> FALSE, value |-> file.pkg]
    ELSE [raised |-> TRUE, value |-> NoPackage]

Raised == [raised |-> TRUE, result |-> << >>, handed |-> {}]

Returned(result, handed) == [raised |-> FALSE, result |-> result, handed |-> handed]

\* A vector given to scaler.transform: the quantities in its columns, the stored
\* feature_names, and whether a rating was predicted from it.
Handoff(path, row, names, scored) ==
    [path |-> path, cols |-> Cols(row), feature_names |-> names, scored |-> scored]

\* predict_ratings(model_package, stations_df, user_prefs)
predict_ratings(pkg, stations, user) ==
    IF stations = << >> THEN Returned(<< >>, {})
    ELSE IF pkg.absent # {} THEN Raised    \* model_package[...]: KeyError
    ELSE IF \E i \in DOMAIN stations :
              ~EncoderKnows(pkg.charger_encoder, stations[i].charger_category)
    THEN Raised  \* charger_encoder.transform on the whole column: ValueError
    ELSE
      LET n     == Len(stations)
          names == pkg.feature_names
          rows  == [i \in 1..n |->
                      recommend_features(stations[i], i, n, user, pkg.charger_encoder, names)]
          sel   == [i \in 1..n |-> SelectColumns(rows[i], names)]
          X     == [i \in 1..n |-> sel[i].row]
          handed(scored) == { Handoff("recommend", X[i], names, scored) : i \in 1..n }
          rated == [i \in 1..n |->
                      stations[i] @@
                      [available_slots |-> randint(i, stations[i].total_connections + 1),
                       reliability_score |-> uniform_75_95(n + i),
                       predicted_rating |->
                          Round2(Clamp(RegressorPredict(pkg.model, X[i])))]]
      IN IF \E i \in 1..n : ~sel[i].ok
         THEN Returned(<< >>, {})      \* KeyError: "Missing feature", return []
         ELSE IF \E i \in 1..n : ~ScalerAccepts(pkg.scaler, X[i])
         THEN [Raised EXCEPT !.handed = handed(FALSE)]
         ELSE IF \E i \in 1..n : ~RegressorAccepts(pkg.model, X[i])
         THEN [Raised EXCEPT !.handed = handed(FALSE)]
         ELSE Returned(SortDesc(rated, "predicted_rating"), handed(TRUE))

ServeInit ==
    /\ stdin \in
         { [valid |-> FALSE, stations |-> << >>, user_preferences |-> NoUser] }
         \cup { [valid |-> TRUE, stations |-> s, user_preferences |-> u] :
                  s \in SeqsUpTo(ServePool, MaxStations), u \in ServeUsers }
    /\ modelFile \in ServeFiles
    /\ pc = "start"
    /\ stations_df = << >>
    /\ user_preferences = NoUser
    /\ model_package = NoPackage
    /\ stdout = << >>
    /\ stderr = 0
    /\ exit_status = 0

ServeIdle ==
    /\ stdin = [valid |-> FALSE, stations |-> << >>, user_preferences |-> NoUser]
    /\ modelFile = FileMissing
    /\ pc = "idle"
    /\ stations_df = << >>
    /\ user_preferences = NoUser
    /\ model_package = NoPackage
    /\ stdout = << >>
    /\ stderr = 0
    /\ exit_status = 0

\* An exit that reports the error and returns status 0.
ExitWithSuccess ==
    /\ pc' = "exited"
    /\ stderr' = stderr + 1
    /\ exit_status' = 0

\* exit through print_error(...) and sys.exit(1)
ExitWithError ==
    /\ pc' = "exited"
    /\ stderr' = stderr + 1
    /\ exit_status' = 1

\* main: json.load(sys.stdin) fails with JSONDecodeError
main_invalid_json ==
    /\ pc = "start"
    /\ ~stdin.valid
    /\ ExitWithError
    /\ UNCHANGED << stdin, modelFile, stations_df, user_preferences, model_package,
                    stdout, handoffs >>
    /\ UNCHANGED << collectorVars, featVars, trainerVars, testerVars >>

\* main: `if not stations: print(json.dumps([])); return`
main_no_stations ==
    /\ pc = "start"
    /\ stdin.valid
    /\ stdin.stations = << >>
    /\ stdout' = Append(stdout, << >>)
    /\ pc' = "exited"
    /\ user_preferences' = stdin.user_preferences
    /\ UNCHANGED << stdin, modelFile, stations_df, model_package, stderr, exit_status,
                    handoffs >>
    /\ UNCHANGED << collectorVars, featVars, trainerVars, testerVars >>

\* main: stations_df = pd.DataFrame(stations)
main_read_stations ==
    /\ pc = "start"
    /\ stdin.valid
    /\ stdin.stations # << >>
    /\ stations_df' = stdin.stations
    /\ user_preferences' = stdin.user_preferences
    /\ pc' = "load"
    /\ UNCHANGED << stdin, modelFile, model_package, stdout, stderr, exit_status,
                    handoffs >>
    /\ UNCHANGED << collectorVars, featVars, trainerVars, testerVars >>

\* main: model_package = load_model(MODEL_PATH)
main_load_model ==
    /\ pc = "load"
    /\ LET r == load_model(modelFile)
       IN IF r.raised
          THEN /\ ExitWithError     \* except Exception: print_error; sys.exit(1)
               /\ UNCHANGED model_package
          ELSE /\ model_package' = r.value
               /\ pc' = "predict"
               /\ UNCHANGED << stderr, exit_status >>
    /\ UNCHANGED << stdin, modelFile, stations_df, user_preferences, stdout, handoffs >>
    /\ UNCHANGED << collectorVars, featVars, trainerVars, testerVars >>

\* main: recommendations = predict_ratings(...); print(json.dumps(recommendations))
main_predict ==
    /\ pc = "predict"
    /\ LET r == predict_ratings(model_package, stations_df, user_preferences)
       IN /\ handoffs' = r.handed
          /\ IF r.raised
             THEN /\ ExitWithError
                  /\ UNCHANGED stdout
             ELSE /\ stdout' = Append(stdout, r.result)
                  /\ stderr' = stderr + (IF r.result = << >> THEN 1 ELSE 0)
                  /\ pc' = "exited"
                  /\ UNCHANGED exit_status
    /\ UNCHANGED << stdin, modelFile, stations_df, user_preferences, model_package >>
    /\ UNCHANGED << collectorVars, featVars, trainerVars, testerVars >>

ServeNext ==
    \/ main_invalid_json
    \/ main_no_stations
    \/ main_read_stations
    \/ main_load_model
    \/ main_predict

NoStation ==
    [id |-> 0, distance |-> 0, total_connections |-> 0, available_slots |-> 0,
     max_power_kw |-> 0, price |-> 0, reliability_score |-> 0, charger_category |-> ""]

FeatIdle == fin = NoStation /\ fout = << >>


(***************************************************************************)
(* trainModel.py: EVRecommendationModelTrainer                             *)
(***************************************************************************)
MaxRuns == 2

Station(id, d, tc, s, p, c, rel, cat) ==
    [id |-> id, distance |-> d, total_connections |-> tc, available_slots |-> s,
     max_power_kw |-> p, price |-> c, reliability_score |-> rel, charger_category |-> cat]

User(b, ps) == [battery_capacity |-> b, is_price_sensitive |-> ps]

Booking(st, user, weekend) == [station |-> st, user |-> user, weekend |-> weekend]

\* Merged booking rows of a training set, by kind.
RowNearSuper == Booking(Station(1, 2, 2, 1, 60, 12, 90, "superfast"), User(44, 0), 0)

RowMidFast == Booking(Station(2, 10, 2, 0, 22, 9, 70, "fast"), User(72, 1), 1)

RowFarSlow == Booking(Station(3, 40, 1, 1, 7, 7, 80, "slow"), User(35, 1), 0)

\* price_paid_per_kwh = 0: power_efficiency and value_score are infinite
RowFree == Booking(Station(5, 6, 2, 2, 7, 0, 80, "slow"), User(35, 0), 0)

\* distance_km = 0: pd.cut leaves distance_category NaN
RowAtHome == Booking(Station(6, 0, 2, 1, 22, 9, 80, "fast"), User(25, 0), 1)

\* A training set: whether the three CSV files exist, the number of merged rows,
\* the kinds of row among them, whether bookings carry booking_date, and the
\* regressor compare_algorithms finds to have the lowest MAE on it.
Dataset(present, count, kinds, hasDate, best) ==
    [present |-> present, count |-> count, kinds |-> kinds, hasDate |-> hasDate,
     best |-> best]

NoData == Dataset(FALSE, 0, {}, FALSE, "LinearRegression")

Datasets ==
    { NoData,
      Dataset(TRUE, 0, {}, TRUE, "LinearRegression"),
      Dataset(TRUE, 1, {RowNearSuper}, TRUE, "LinearRegression"),
      Dataset(TRUE, 10, {RowNearSuper, RowMidFast}, TRUE, "LinearRegression"),
      Dataset(TRUE, 1200, {RowNearSuper, RowMidFast, RowFarSlow}, TRUE, "RandomForestRegressor"),
      Dataset(TRUE, 1200, {RowMidFast, RowFarSlow}, FALSE, "LinearRegression"),
      Dataset(TRUE, 1200, {RowNearSuper, RowFarSlow, RowFree}, TRUE, "RandomForestRegressor"),
      Dataset(TRUE, 1200, {RowNearSuper, RowMidFast, RowAtHome}, TRUE, "LinearRegression") }

DataClasses(data) == { b.station.charger_category : b \in data.kinds }

DataColumns(data) == IF data.hasDate THEN TrainColumns \o TimeColumns ELSE TrainColumns

\* The feature rows prepare_training_features returns for a training set.
DataRows(data) ==
    { prepare_training_row(b.station, b.user, [classes |-> DataClasses(data), run |-> 0],
                           b.weekend, data.hasDate) : b \in data.kinds }

HasInfRow(data) == \E row \in DataRows(data) : \E i \in DOMAIN row : row[i].val.k = "inf"

HasNaNRow(data) == \E row \in DataRows(data) : \E i \in DOMAIN row : row[i].val.k = "nan"

\* train_test_split(test_size=0.2): n_test = ceil(0.2 n), n_train = n - n_test
TestSize(n) == (n + 4) \div 5

TrainSize(n) == n - TestSize(n)

Algorithms == {"random_forest", "linear", "gradient_boosting"}

KindOf(algorithm) ==
    IF algorithm = "random_forest" THEN "RandomForestRegressor" ELSE "LinearRegression"

\* What fitting a regressor of a kind yields (random_state is fixed).
FitShape(kind) == IF kind = "RandomForestRegressor" THEN << 5600, 0 - 40 >> ELSE << 0 - 255, 25 >>

Fitted(kind, n, run) == Regressor(kind, n, run, FitShape(kind))

TrainOps == {"train_model", "train_final_model", "compare_algorithms"}

\* The trainer's fitted objects and its flag, as they stand.
Bundle == << model, scaler, charger_encoder, feature_names, is_trained >>

NoCall == [op |-> "none", via |-> "none", algorithm |-> "none", step |-> "none",
           run |-> 0, data |-> NoData, trained_before |-> FALSE, before |-> << >>]

NoResponse == [request |-> "none", code |-> 0, outcome |-> "none", rating |-> 0]

Response(request, code, outcome, rating) ==
    [request |-> request, code |-> code, outcome |-> outcome, rating |-> rating]

\* __init__
TrainerInit ==
    /\ model = NoModel
    /\ scaler = UnfittedScaler
    /\ charger_encoder = UnfittedEncoder
    /\ feature_names = << >>
    /\ is_trained = FALSE
    /\ trainingData \in Datasets
    /\ call = NoCall
    /\ runs = 0
    /\ response = NoResponse

TrainerIdle ==
    /\ surface = "none"
    /\ model = NoModel
    /\ scaler = UnfittedScaler
    /\ charger_encoder = UnfittedEncoder
    /\ feature_names = << >>
    /\ is_trained = FALSE
    /\ trainingData = NoData
    /\ call = NoCall
    /\ runs = 0
    /\ response = NoResponse

\* The end of a training call.  A direct call returns or raises; api.train_model
\* answers 200 when train_final_model returned a performance, 500 otherwise.
Finish(outcome) ==
    /\ call' = NoCall
    /\ response' = Response(call.op,
                            IF call.via # "http" THEN 0
                            ELSE IF outcome = "performance" THEN 200 ELSE 500,
                            outcome, 0)

Step(next) == call' = [call EXCEPT !.step = next] /\ UNCHANGED response

\* A caller starts train_model(algorithm), train_final_model(algorithm) or
\* compare_algorithms(); POST /train starts train_final_model.
begin_training(op, algorithm) ==
    /\ surface \in {"http", "direct"}
    /\ call = NoCall
    /\ runs < MaxRuns
    /\ surface = "http" => op = "train_final_model"
    /\ op = "compare_algorithms" => algorithm = "random_forest"
    /\ runs' = runs + 1
    /\ call' = [op |-> op, via |-> surface, algorithm |-> algorithm, step |-> "load",
                run |-> runs + 1, data |-> NoData, trained_before |-> is_trained,
                before |-> Bundle]
    /\ UNCHANGED << model, scaler, charger_encoder, feature_names, is_trained,
                    trainingData, response,
                    modelFile, handoffs >>
    /\ UNCHANGED << collectorVars, featVars, serveRest, testerVars, surface >>

\* load_training_data(): FileNotFoundError gives (None, None, None), and the
\* training method returns False (compare_algorithms: None).
training_load_data ==
    /\ call.step = "load"
    /\ IF trainingData.present
       THEN call' = [call EXCEPT !.step = "prepare", !.data = trainingData]
            /\ UNCHANGED response
       ELSE Finish("False")
    /\ UNCHANGED << model, scaler, charger_encoder, feature_names, is_trained,
                    trainingData, runs,
                    modelFile, handoffs >>
    /\ UNCHANGED << collectorVars, featVars, serveRest, testerVars, surface >>

\* prepare_training_features: charger_encoder.fit_transform and
\* self.feature_names = features.columns.tolist(); then train_model's
\* `if len(X) == 0: return False`.
training_prepare ==
    /\ call.step = "prepare"
    /\ charger_encoder' = [classes |-> DataClasses(call.data), run |-> call.run]
    /\ feature_names' = DataColumns(call.data)
    /\ IF call.op = "train_model" /\ call.data.count = 0
       THEN Finish("False")
       ELSE Step("split")
    /\ UNCHANGED << model, scaler, is_trained, trainingData, runs,
                    modelFile, handoffs >>
    /\ UNCHANGED << collectorVars, featVars, serveRest, testerVars, surface >>

\* train_test_split raises ValueError when the train set would be empty.
training_split ==
    /\ call.step = "split"
    /\ IF TrainSize(call.data.count) = 0
       THEN Finish("raised")
       ELSE Step("scale")
    /\ UNCHANGED << model, scaler, charger_encoder, feature_names, is_trained,
                    trainingData, runs,
                    modelFile, handoffs >>
    /\ UNCHANGED << collectorVars, featVars, serveRest, testerVars, surface >>

\* self.scaler.fit_transform(X_train); self.scaler.transform(X_test).  An
\* infinite value raises ValueError: in fit (after _reset()) when its row fell
\* in the train part, in transform (the scaler fitted) when it fell in the test
\* part.
training_scale ==
    /\ call.step = "scale"
    /\ LET fitted == [n |-> Len(DataColumns(call.data)), run |-> call.run]
       IN IF HasInfRow(call.data)
          THEN /\ \E inTrain \in BOOLEAN :
                    scaler' = IF inTrain THEN UnfittedScaler ELSE fitted
               /\ Finish("raised")
          ELSE /\ scaler' = fitted
               /\ Step("select")
    /\ UNCHANGED << model, charger_encoder, feature_names, is_trained, trainingData, runs,
                    modelFile, handoffs >>
    /\ UNCHANGED << collectorVars, featVars, serveRest, testerVars, surface >>

\* The algorithm selection.  train_model raises ValueError for an unknown
\* algorithm; train_final_model has no else branch and keeps self.model;
\* compare_algorithms fits both candidates and takes the one with the lowest MAE.
training_select ==
    /\ call.step = "select"
    /\ IF call.op = "compare_algorithms"
       THEN IF HasNaNRow(call.data)
            THEN UNCHANGED model /\ Finish("raised")
            ELSE /\ model' = Fitted(call.data.best, Len(DataColumns(call.data)), call.run)
                 /\ Step("fit")
       ELSE IF call.algorithm \in {"random_forest", "linear"}
            THEN model' = Unfitted(KindOf(call.algorithm)) /\ Step("fit")
            ELSE IF call.op = "train_model"
                 THEN UNCHANGED model /\ Finish("raised")
                 ELSE UNCHANGED model /\ Step("fit")
    /\ UNCHANGED << scaler, charger_encoder, feature_names, is_trained, trainingData, runs,
                    modelFile, handoffs >>
    /\ UNCHANGED << collectorVars, featVars, serveRest, testerVars, surface >>

\* self.model.fit(X_train_scaled, y_train): AttributeError when self.model is
\* None, ValueError when X_train holds a NaN (input validation, before the
\* regressor changes).
training_fit ==
    /\ call.step = "fit"
    /\ IF model.kind = "none"
       THEN UNCHANGED model /\ Finish("raised")
       ELSE IF HasNaNRow(call.data)
       THEN \E inTrain \in BOOLEAN :
              IF inTrain
              THEN UNCHANGED model /\ Finish("raised")
              ELSE /\ model' = Fitted(model.kind, Len(DataColumns(call.data)), call.run)
                   /\ Finish("raised")    \* _evaluate_model: predict(X_test) raises
       ELSE /\ model' = Fitted(model.kind, Len(DataColumns(call.data)), call.run)
            /\ Step(IF call.op = "compare_algorithms" THEN "mark" ELSE "evaluate")
    /\ UNCHANGED << scaler, charger_encoder, feature_names, is_trained, trainingData, runs,
                    modelFile, handoffs >>
    /\ UNCHANGED << collectorVars, featVars, serveRest, testerVars, surface >>

\* _evaluate_model: for a regressor with feature_importances_,
\* cross_val_score(cv=5) on the test part raises ValueError below 5 samples.
training_evaluate ==
    /\ call.step = "evaluate"
    /\ IF model.kind = "RandomForestRegressor" /\ TestSize(call.data.count) < 5
       THEN Finish("raised")
       ELSE Step("mark")
    /\ UNCHANGED << model, scaler, charger_encoder, feature_names, is_trained,
                    trainingData, runs,
                    modelFile, handoffs >>
    /\ UNCHANGED << collectorVars, featVars, serveRest, testerVars, surface >>

\* self.is_trained = True, and the return of train_model / compare_algorithms
training_mark ==
    /\ call.step = "mark"
    /\ is_trained' = TRUE
    /\ IF call.op = "train_final_model"
       THEN Step("save")
       ELSE Finish(IF call.op = "train_model" THEN "True" ELSE "results")
    /\ UNCHANGED << model, scaler, charger_encoder, feature_names, trainingData, runs,
                    modelFile, handoffs >>
    /\ UNCHANGED << collectorVars, featVars, serveRest, testerVars, surface >>

\* train_final_model: save_trained_model() writes the bundle, return performance
training_save ==
    /\ call.step = "save"
    /\ modelFile' =
         IF is_trained
         THEN FileOk([model |-> model, scaler |-> scaler,
                      charger_encoder |-> charger_encoder, feature_names |-> feature_names,
                      absent |-> {}])
         ELSE modelFile
    /\ Finish("performance")
    /\ UNCHANGED << model, scaler, charger_encoder, feature_names, is_trained,
                    trainingData, runs,
                    handoffs >>
    /\ UNCHANGED << collectorVars, featVars, serveRest, testerVars, surface >>

\* load_trained_model(filepath) reads the dict's keys in the order model, scaler,
\* charger_encoder, feature_names: the number of keys read before a KeyError
\* (4: none), 0 when joblib.load itself failed.
KeysRead(file) ==
    LET keys == << "model", "scaler", "charger_encoder", "feature_names" >>
    IN IF file.state # "ok" THEN 0
       ELSE IF file.pkg.absent = {} THEN 4
       ELSE (CHOOSE i \in 1..4 : /\ keys[i] \in file.pkg.absent
                                 /\ \A j \in 1..(i - 1) : keys[j] \notin file.pkg.absent) - 1

\* load_trained_model(filepath): the fields are assigned one by one from the
\* dict; a missing key raises KeyError after the assignments before it, and
\* every exception is answered with `return False`.
load_trained_model(file) ==
    LET got == KeysRead(file)
    IN /\ model' = IF got >= 1 THEN file.pkg.model ELSE model
       /\ scaler' = IF got >= 2 THEN file.pkg.scaler ELSE scaler
       /\ charger_encoder' = IF got >= 3 THEN file.pkg.charger_encoder ELSE charger_encoder
       /\ feature_names' = IF got >= 4 THEN file.pkg.feature_names ELSE feature_names
       /\ is_trained' = IF got = 4 THEN TRUE ELSE is_trained

\* A script calls trainer.load_trained_model(path).
call_load_trained_model ==
    /\ surface = "direct"
    /\ call = NoCall
    /\ load_trained_model(modelFile)
    /\ response' = Response("load_trained_model", 0,
                            IF KeysRead(modelFile) = 4 THEN "True" ELSE "False", 0)
    /\ UNCHANGED << trainingData, call, runs, modelFile, handoffs >>
    /\ UNCHANGED << collectorVars, featVars, serveRest, testerVars, surface >>

\* station_features of a predict request, with the engineered values the caller
\* supplies.
StationFeatures(st, ppk, pe, vs) ==
    st @@ [price_per_km |-> ppk, power_efficiency |-> pe, value_score |-> vs]

PredictRequests ==
    { StationFeatures(Station(1, 2, 2, 1, 60, 12, 90, "superfast"), F(24), F(5), Num(250)),
      StationFeatures(Station(2, 40, 1, 1, 22, 9, 70, "fast"), F(360), Num(244), Num(244)),
      StationFeatures(Station(3, 10, 0, 0, 7, 7, 80, "slow"), F(70), F(1), F(0)),
      StationFeatures(Station(4, 5, 1, 1, 7, 8, 80, UnseenCategory), F(40), Num(87), Num(87)) }

\* predict_station_rating(user_features, station_features): the outcome, the
\* rating (thousandths) and the vector given to the scaler, if any.
predict_station_rating(user, sf) ==
    LET vector == trainer_feature_vector(sf, user, charger_encoder, feature_names)
        hand(scored) == { Handoff("trainer", vector, feature_names, scored) }
    IN IF ~is_trained
       THEN [outcome |-> "not_trained", rating |-> 0, handed |-> {}]
       ELSE IF ~EncoderKnows(charger_encoder, sf.charger_category)
       THEN [outcome |-> "raised", rating |-> 0, handed |-> {}]      \* ValueError
       ELSE IF sf.total_connections = 0
       THEN [outcome |-> "raised", rating |-> 0, handed |-> {}]      \* ZeroDivisionError
       ELSE IF ~ScalerAccepts(scaler, vector)
       THEN [outcome |-> "raised", rating |-> 0, handed |-> hand(FALSE)]
       ELSE IF model.kind = "none" \/ model.run = 0 \/ ~RegressorAccepts(model, vector)
       THEN [outcome |-> "raised", rating |-> 0, handed |-> hand(FALSE)]
       ELSE [outcome |-> "rating", rating |-> Clamp(RegressorPredict(model, vector)),
             handed |-> hand(TRUE)]

\* POST /predict
api_predict_rating ==
    /\ surface = "http"
    /\ \E sf \in PredictRequests :
         IF ~is_trained
         THEN /\ response' = Response("predict", 400, "not_trained", 0)
              /\ UNCHANGED handoffs
         ELSE LET r == predict_station_rating(User(44, 0), sf)
              IN /\ response' = Response("predict", IF r.outcome = "rating" THEN 200 ELSE 500,
                                         r.outcome, r.rating)
                 /\ handoffs' = r.handed
    /\ UNCHANGED << model, scaler, charger_encoder, feature_names, is_trained,
                    trainingData, call, runs, modelFile >>
    /\ UNCHANGED << collectorVars, featVars, serveRest, testerVars, surface >>

\* A script calls trainer.predict_station_rating(user_features, station_features).
call_predict_station_rating ==
    /\ surface = "direct"
    /\ call = NoCall
    /\ \E sf \in PredictRequests :
         LET r == predict_station_rating(User(44, 0), sf)
         IN /\ response' = Response("predict_station_rating", 0,
                                    IF r.outcome = "rating" THEN "rating" ELSE "raised",
                                    r.rating)
            /\ handoffs' = r.handed
    /\ UNCHANGED << model, scaler, charger_encoder, feature_names, is_trained,
                    trainingData, call, runs, modelFile >>
    /\ UNCHANGED << collectorVars, featVars, serveRest, testerVars, surface >>

\* A status that reports whether the trainer holds a regressor object.
api_model_status_by_model ==
    /\ surface = "http"
    /\ response' = Response("status", 200, IF model.kind # "none" THEN "true" ELSE "false", 0)
    /\ UNCHANGED << model, scaler, charger_encoder, feature_names, is_trained,
                    trainingData, call, runs, modelFile, handoffs >>
    /\ UNCHANGED << collectorVars, featVars, serveRest, testerVars, surface >>

\* GET /status
api_model_status ==
    /\ surface = "http"
    /\ response' = Response("status", 200, IF is_trained THEN "true" ELSE "false", 0)
    /\ UNCHANGED << model, scaler, charger_encoder, feature_names, is_trained,
                    trainingData, call, runs, modelFile, handoffs >>
    /\ UNCHANGED << collectorVars, featVars, serveRest, testerVars, surface >>

\* The data collector rewrites the training CSV files (or they are removed).
write_training_data ==
    /\ surface \in {"http", "direct"}
    /\ call = NoCall
    /\ \E d \in Datasets : d # trainingData /\ trainingData' = d
    /\ UNCHANGED << model, scaler, charger_encoder, feature_names, is_trained,
                    call, runs, response, modelFile, handoffs >>
    /\ UNCHANGED << collectorVars, featVars, serveRest, testerVars, surface >>

\* Artifact files present when the process starts.
TrainerFiles ==
    { FileMissing, FileCorrupt,
      FileOk(Package(TrainColumns \o TimeColumns, Categories, 0 - 1, << 3335, 0 >>)),
      FileOk(Package(TrainColumns \o << "hour_of_day", "is_weekend" >>, Categories, 0 - 1,
                     << 3335, 0 >>)),
      FileOk([Package(TrainColumns, Categories, 0 - 1, << 3335, 0 >>)
                EXCEPT !.absent = {"charger_encoder", "feature_names"}]) }

TrainerNext ==
    \/ \E op \in TrainOps, algorithm \in Algorithms : begin_training(op, algorithm)
    \/ training_load_data
    \/ training_prepare
    \/ training_split
    \/ training_scale
    \/ training_select
    \/ training_fit
    \/ training_evaluate
    \/ training_mark
    \/ training_save
    \/ call_load_trained_model
    \/ call_predict_station_rating
    \/ api_predict_rating
    \/ api_model_status
    \/ write_training_data

(***************************************************************************)
(* modelTest.py: EVRecommenderTester                                       *)
(***************************************************************************)
TesterStation(id, d, tc, s, p, c, rel, cat) ==
    Station(id, d, tc, s, p, c, rel, cat) @@ [is_operational |-> 1]

TesterPool ==
    { TesterStation(1, 1, 2, 2, 60, 12, 90, "superfast"),
      TesterStation(2, 10, 3, 0, 22, 9, 70, "fast"),
      TesterStation(3, 40, 4, 3, 7, 7, 80, "slow"),
      TesterStation(4, 5, 1, 1, 7, 8, 80, UnseenCategory) }

\* user_prefs with the .get defaults applied by _get_ml_recommendations
TesterUsers == { User(45, 0), User(72, 1), User(72, 0) }

\* The three stations of the pool that differ in everything, with max_power_kw
\* at the ends of each category's range (49 stands for 49.9, 21 for 21.9).
ScenarioFrames ==
    { Frame(<< TesterStation(1, 1, 2, 2, kwA, 12, 90, "superfast"),
               TesterStation(2, 10, 3, 0, kwB, 9, 70, "fast"),
               TesterStation(3, 40, 4, 3, kwC, 7, 80, "slow") >>) :
          kwA \in {50, 120}, kwB \in {22, 49}, kwC \in {1, 21} }

TesterFrames ==
    { EmptyFrame } \cup { Frame(s) : s \in SeqsUpTo(TesterPool, MaxStations) } \cup ScenarioFrames

TesterFiles ==
    { FileMissing, FileCorrupt,
      FileOk(Package(TrainColumns \o TimeColumns, Categories, 0 - 1, << 5600, 0 - 40 >>)),
      FileOk(Package(TrainColumns, {"slow", "fast"}, 0 - 1, << 0 - 255, 25 >>)),
      FileOk(Package(TrainColumns \o << ForeignColumn >>, Categories, 0 - 1, << 3335, 0 >>)),
      FileOk([Package(TrainColumns, Categories, 0 - 1, << 3335, 0 >>)
                EXCEPT !.absent = {"scaler"}]) }

NoResult == [op |-> "none", kind |-> "none", items |-> << >>]

Result(op, kind, items) == [op |-> op, kind |-> kind, items |-> items]

\* _get_ml_recommendations: the vector of one station as given to the scaler
tester_vector(st, user) ==
    tester_align(tester_feature_data(st, user, charger_encoder, feature_names), feature_names)

\* _get_ml_recommendations: whether the body of the try block completes for a
\* station (no exception from the encoder, the scaler or the regressor)
tester_scores(st, user) ==
    /\ EncoderKnows(charger_encoder, st.charger_category)
    /\ ScalerAccepts(scaler, tester_vector(st, user))
    /\ RegressorAccepts(model, tester_vector(st, user))

tester_entry(st, user) ==
    [station_id |-> st.id,
     predicted_rating |-> Round2(Clamp(RegressorPredict(model, tester_vector(st, user)))),
     distance_km |-> st.distance,
     available_slots |-> st.available_slots,
     total_connections |-> st.total_connections,
     price_per_kwh |-> st.price,
     charger_type |-> st.charger_category,
     max_power_kw |-> st.max_power_kw]

RECURSIVE tester_collect(_, _)
tester_collect(rows, user) ==
    IF rows = << >> THEN << >>
    ELSE IF tester_scores(Head(rows), user)
         THEN << tester_entry(Head(rows), user) >> \o tester_collect(Tail(rows), user)
         ELSE tester_collect(Tail(rows), user)         \* except Exception: continue

\* _get_ml_recommendations(user_prefs, stations_df)
get_ml_recommendations(user, frame) ==
    nlargest(tester_collect(frame.rows, user), 3, "predicted_rating")

tester_handoffs(user, frame) ==
    { Handoff("tester", tester_vector(frame.rows[i], user), feature_names,
              tester_scores(frame.rows[i], user)) :
        i \in { j \in DOMAIN frame.rows :
                  EncoderKnows(charger_encoder, frame.rows[j].charger_category) } }

\* A score that leaves the free slots out.
rule_score_ignoring_slots(st, user) ==
    (30000000 \div (st.distance + 1))
    + (20000000 \div (st.price + 1))
    + ((15000000 * st.max_power_kw) \div 50)
    + 10000000 * st.is_operational

\* The rule-based score of one station, in millionths.
rule_score(st, user) ==
    (30000000 \div (st.distance + 1))
    + 25000000 * st.available_slots
    + (20000000 \div (st.price + 1))
    + ((15000000 * st.max_power_kw) \div 50)
    + 10000000 * st.is_operational
    + (IF user.is_price_sensitive # 0 THEN 15000000 \div (st.price + 1) ELSE 0)
    + (IF user.battery_capacity > 50 /\ st.charger_category \in {"fast", "superfast"}
       THEN 10000000 ELSE 0)

simple_entry(st, user) ==
    [station_id |-> st.id,
     score |-> rule_score(st, user),
     distance_km |-> st.distance,
     available_slots |-> st.available_slots,
     total_connections |-> st.total_connections,
     price_per_kwh |-> st.price,
     charger_type |-> st.charger_category,
     max_power_kw |-> st.max_power_kw]

\* _get_simple_recommendations(user_prefs, stations_df); stations_df[...] raises
\* KeyError on a frame without columns.
get_simple_recommendations(user, frame) ==
    IF ~frame.columns THEN Result("_get_simple_recommendations", "raised", << >>)
    ELSE Result("_get_simple_recommendations", "list",
                nlargest([i \in DOMAIN frame.rows |-> simple_entry(frame.rows[i], user)],
                         3, "score"))

TesterInit ==
    /\ model_loaded = FALSE
    /\ candidates = EmptyFrame
    /\ user_prefs = NoUser
    /\ recommendations = NoResult

TesterIdle == TesterInit

trainerRest == << trainingData, call, runs, response, surface >>

testerFrame == << model, scaler, charger_encoder, feature_names, is_trained,
                  model_loaded, candidates, user_prefs, modelFile >>

\* EVRecommenderTester.load_model(model_path)
tester_load_model ==
    /\ surface = "tester"
    /\ load_trained_model(modelFile)
    /\ model_loaded' = (KeysRead(modelFile) = 4)
    /\ recommendations' = Result("load_model",
                                 IF KeysRead(modelFile) = 4 THEN "True" ELSE "False", << >>)
    /\ UNCHANGED << candidates, user_prefs, handoffs, modelFile >>
    /\ UNCHANGED << collectorVars, featVars, serveRest, trainerRest >>

\* test_recommendations_for_location(lat, lng, user_prefs), nearby_stations
\* being the frame fetch_stations_by_location returned
test_recommendations_for_location ==
    /\ surface = "tester"
    /\ IF candidates.rows = << >>
       THEN /\ recommendations' = Result("test_recommendations_for_location", "None", << >>)
            /\ handoffs' = {}
       ELSE IF model_loaded
       THEN /\ recommendations' = Result("test_recommendations_for_location", "list",
                                         get_ml_recommendations(user_prefs, candidates))
            /\ handoffs' = tester_handoffs(user_prefs, candidates)
       ELSE /\ recommendations' = [get_simple_recommendations(user_prefs, candidates)
                                     EXCEPT !.op = "test_recommendations_for_location"]
            /\ handoffs' = {}
    /\ UNCHANGED testerFrame
    /\ UNCHANGED << collectorVars, featVars, serveRest, trainerRest >>

\* _get_ml_recommendations(user_prefs, stations_df) called on the frame
\* (benchmark_model, evaluate_model_performance: only with a model loaded)
call_get_ml_recommendations ==
    /\ surface = "tester"
    /\ model_loaded
    /\ recommendations' = Result("_get_ml_recommendations", "list",
                                 get_ml_recommendations(user_prefs, candidates))
    /\ handoffs' = tester_handoffs(user_prefs, candidates)
    /\ UNCHANGED testerFrame
    /\ UNCHANGED << collectorVars, featVars, serveRest, trainerRest >>

\* _get_simple_recommendations(user_prefs, stations_df) called on the frame
call_get_simple_recommendations ==
    /\ surface = "tester"
    /\ recommendations' = get_simple_recommendations(user_prefs, candidates)
    /\ handoffs' = {}
    /\ UNCHANGED testerFrame
    /\ UNCHANGED << collectorVars, featVars, serveRest, trainerRest >>

TesterNext ==
    \/ tester_load_model
    \/ test_recommendations_for_location
    \/ call_get_ml_recommendations
    \/ call_get_simple_recommendations

TesterSpecInit ==
    /\ model_loaded = FALSE /\ recommendations = NoResult
    /\ candidates \in TesterFrames
    /\ user_prefs \in TesterUsers
    /\ FeatIdle /\ CollectorIdle /\ handoffs = {}
    /\ surface = "tester" /\ model = NoModel /\ scaler = UnfittedScaler
    /\ charger_encoder = UnfittedEncoder /\ feature_names = << >> /\ is_trained = FALSE
    /\ trainingData = NoData /\ call = NoCall /\ runs = 0 /\ response = NoResponse
    /\ modelFile \in TesterFiles
    /\ stdin = [valid |-> FALSE, stations |-> << >>, user_preferences |-> NoUser]
    /\ pc = "idle" /\ stations_df = << >> /\ user_preferences = NoUser
    /\ model_package = NoPackage /\ stdout = << >> /\ stderr = 0 /\ exit_status = 0

SpecTester == TesterSpecInit /\ [][TesterNext]_vars

(***************************************************************************)
(* The engineered features of one station, as each of the four paths       *)
(* computes them from the same quantities.  fin is the station; fout maps  *)
(* each path that has run to what it produced.                             *)
(***************************************************************************)
FeatDistances == {0, 2, 5, 10, 15, 20, 30, 31, 100}

FeatPrices == {0, 7, 12}

FeatInputs ==
    { Station(1, d, tc, s, 60, c, 80, "fast") :
        d \in FeatDistances, tc \in 0..MaxConnections, s \in 0..MaxConnections, c \in FeatPrices }

FeatEncoder == [classes |-> Categories, run |-> 1]

FeatUser == User(45, 0)

FeatOut(raised, row) ==
    IF raised
    THEN [raised |-> TRUE, distance_category |-> NaN, availability_ratio |-> NaN,
          power_efficiency |-> NaN, value_score |-> NaN, time |-> << >>]
    ELSE [raised |-> FALSE,
          time |-> IF HasCol(row, "is_weekend") /\ HasCol(row, "hour_of_day")
                   THEN << ValOf(row, "is_weekend"), ValOf(row, "hour_of_day") >>
                   ELSE << >>,
          distance_category  |-> ValOf(row, "distance_category"),
          availability_ratio |-> ValOf(row, "availability_ratio"),
          power_efficiency   |-> ValOf(row, "power_efficiency"),
          value_score        |-> ValOf(row, "value_score")]

\* the station_features a caller of predict_station_rating sends: the three
\* engineered values are the caller's, here computed with zero denominators
\* giving 0
CallerFeatures(st) ==
    LET row == tester_feature_data(st, FeatUser, FeatEncoder, TrainColumns)
    IN StationFeatures(st, ValOf(row, "price_per_km"), ValOf(row, "power_efficiency"),
                       ValOf(row, "value_score"))

featFrame == << fin, serveVars, trainerVars, testerVars, collectorVars, handoffs >>

\* prepare_training_features on a booking at the station
feat_prepare_training_features ==
    /\ surface = "features"
    /\ "prepare_training_features" \notin DOMAIN fout
    /\ fout' = ("prepare_training_features" :>
                  FeatOut(FALSE, prepare_training_row(fin, FeatUser, FeatEncoder, 0, FALSE)))
               @@ fout
    /\ UNCHANGED featFrame

\* recommend.predict_ratings on the station (available_slots is simulated)
feat_predict_ratings ==
    /\ surface = "features"
    /\ "predict_ratings" \notin DOMAIN fout
    /\ fout' = ("predict_ratings" :>
                  FeatOut(FALSE, recommend_features(fin, 1, 1, FeatUser, FeatEncoder,
                                                    feature_names)))
               @@ fout
    /\ UNCHANGED featFrame

\* _get_ml_recommendations on the station (its fillna finds no NaN to fill:
\* the quantities of the station are numbers and every division is guarded)
feat_get_ml_recommendations ==
    /\ surface = "features"
    /\ "_get_ml_recommendations" \notin DOMAIN fout
    /\ fout' = ("_get_ml_recommendations" :>
                  FeatOut(FALSE,
                          tester_align(tester_feature_data(fin, FeatUser, FeatEncoder,
                                                           feature_names), feature_names)))
               @@ fout
    /\ UNCHANGED featFrame

\* predict_station_rating on the station: available_slots / total_connections
\* on Python numbers raises ZeroDivisionError
feat_predict_station_rating ==
    /\ surface = "features"
    /\ "predict_station_rating" \notin DOMAIN fout
    /\ fout' = ("predict_station_rating" :>
                  FeatOut(fin.total_connections = 0,
                          trainer_feature_vector(CallerFeatures(fin), FeatUser, FeatEncoder,
                                                 feature_names)))
               @@ fout
    /\ UNCHANGED featFrame

FeatNext ==
    \/ feat_prepare_training_features
    \/ feat_predict_ratings
    \/ feat_get_ml_recommendations
    \/ feat_predict_station_rating

FeatSpecInit ==
    /\ fin \in { st \in FeatInputs : st.available_slots <= st.total_connections }
    /\ fout = << >>
    /\ CollectorIdle
    /\ handoffs = {}
    /\ stdin = [valid |-> FALSE, stations |-> << >>, user_preferences |-> NoUser]
    /\ modelFile = FileMissing
    /\ pc = "idle" /\ stations_df = << >> /\ user_preferences = NoUser
    /\ model_package = NoPackage /\ stdout = << >> /\ stderr = 0 /\ exit_status = 0
    /\ surface = "features" /\ model = NoModel /\ scaler = UnfittedScaler
    /\ charger_encoder = UnfittedEncoder /\ is_trained = FALSE
    /\ feature_names \in { TrainColumns, TrainColumns \o TimeColumns }
    /\ trainingData = NoData /\ call = NoCall /\ runs = 0 /\ response = NoResponse
    /\ model_loaded = FALSE /\ candidates = EmptyFrame /\ user_prefs = NoUser
    /\ recommendations = NoResult

SpecFeat == FeatSpecInit /\ [][FeatNext]_vars

TrainerSpecInit ==
    /\ TrainerInit /\ FeatIdle /\ TesterIdle /\ CollectorIdle /\ handoffs = {}
    /\ surface \in {"http", "direct"}
    /\ modelFile \in (IF surface = "http" THEN {FileMissing} ELSE TrainerFiles)
    /\ stdin = [valid |-> FALSE, stations |-> << >>, user_preferences |-> NoUser]
    /\ pc = "idle" /\ stations_df = << >> /\ user_preferences = NoUser
    /\ model_package = NoPackage /\ stdout = << >> /\ stderr = 0 /\ exit_status = 0

SpecTrainer == TrainerSpecInit /\ [][TrainerNext]_vars

ServeSpecInit ==
    ServeInit /\ FeatIdle /\ TrainerIdle /\ TesterIdle /\ CollectorIdle /\ handoffs = {}

SpecServe == ServeSpecInit /\ [][ServeNext]_vars

\* A session of the collector: the API's answer is fixed for the session, the
\* generator is on a stream the operating system seeded.
Streams == { 1, 2 }

CollectorSpecInit ==
    /\ surface = "collector"
    /\ raw_data \in RawBatches
    /\ processed = NotFetched /\ previous = NotFetched
    /\ rng \in { [stream |-> s, pos |-> 0] : s \in Streams }
    /\ booking = NoBooking
    /\ GenerationIdle
    /\ FeatIdle /\ handoffs = {}
    /\ stdin = [valid |-> FALSE, stations |-> << >>, user_preferences |-> NoUser]
    /\ modelFile = FileMissing
    /\ pc = "idle" /\ stations_df = << >> /\ user_preferences = NoUser
    /\ model_package = NoPackage /\ stdout = << >> /\ stderr = 0 /\ exit_status = 0
    /\ model = NoModel /\ scaler = UnfittedScaler
    /\ charger_encoder = UnfittedEncoder /\ feature_names = << >> /\ is_trained = FALSE
    /\ trainingData = NoData /\ call = NoCall /\ runs = 0 /\ response = NoResponse
    /\ model_loaded = FALSE /\ candidates = EmptyFrame /\ user_prefs = NoUser
    /\ recommendations = NoResult

SpecCollector == CollectorSpecInit /\ [][CollectorNext]_vars

\* A session of generate_booking_interactions.
BookingsSpecInit ==
    /\ surface = "bookings"
    /\ raw_data = << >>
    /\ processed = NotFetched /\ previous = NotFetched
    /\ rng \in { [stream |-> s, pos |-> 0] : s \in Streams }
    /\ booking = NoBooking
    /\ GenerationIdle
    /\ FeatIdle /\ handoffs = {}
    /\ stdin = [valid |-> FALSE, stations |-> << >>, user_preferences |-> NoUser]
    /\ modelFile = FileMissing
    /\ pc = "idle" /\ stations_df = << >> /\ user_preferences = NoUser
    /\ model_package = NoPackage /\ stdout = << >> /\ stderr = 0 /\ exit_status = 0
    /\ model = NoModel /\ scaler = UnfittedScaler
    /\ charger_encoder = UnfittedEncoder /\ feature_names = << >> /\ is_trained = FALSE
    /\ trainingData = NoData /\ call = NoCall /\ runs = 0 /\ response = NoResponse
    /\ model_loaded = FALSE /\ candidates = EmptyFrame /\ user_prefs = NoUser
    /\ recommendations = NoResult

SpecBookings == BookingsSpecInit /\ [][BookingsNext]_vars

\* A session of generate_booking_interactions over two users.
GenerationSpecInit ==
    /\ surface = "generation"
    /\ users_df \in GenUserFrames
    /\ bookings = << >> /\ cursor = NoCursor
    /\ raw_data = << >>
    /\ processed = NotFetched /\ previous = NotFetched
    /\ rng \in { [stream |-> s, pos |-> 0] : s \in Streams }
    /\ booking = NoBooking
    /\ FeatIdle /\ handoffs = {}
    /\ stdin = [valid |-> FALSE, stations |-> << >>, user_preferences |-> NoUser]
    /\ modelFile = FileMissing
    /\ pc = "idle" /\ stations_df = << >> /\ user_preferences = NoUser
    /\ model_package = NoPackage /\ stdout = << >> /\ stderr = 0 /\ exit_status = 0
    /\ model = NoModel /\ scaler = UnfittedScaler
    /\ charger_encoder = UnfittedEncoder /\ feature_names = << >> /\ is_trained = FALSE
    /\ trainingData = NoData /\ call = NoCall /\ runs = 0 /\ response = NoResponse
    /\ model_loaded = FALSE /\ candidates = EmptyFrame /\ user_prefs = NoUser
    /\ recommendations = NoResult

SpecGeneration == GenerationSpecInit /\ [][GenerationNext]_vars

\* Every entry point: a session is the serving script, the trainer behind HTTP
\* or a script, the tester, the feature computations, or the data collector.
Init ==
    \/ ServeSpecInit \/ TrainerSpecInit \/ TesterSpecInit \/ FeatSpecInit
    \/ CollectorSpecInit \/ BookingsSpecInit \/ GenerationSpecInit

Next ==
    \/ ServeNext \/ TrainerNext \/ TesterNext \/ FeatNext
    \/ CollectorNext \/ BookingsNext \/ GenerationNext

Spec == Init /\ [][Next]_vars

(***************************************************************************)
(* Properties                                                              *)
(***************************************************************************)
\* C1: every vector an inference path hands to the scaler has exactly the
\* stored feature_names as its columns, in the stored order; a vector that has
\* not is never scored.  predict_station_rating builds its vector by position
\* and consults feature_names only for its length, so a stored list in another
\* order is scored with the columns misplaced.
C1_VectorHasStoredFeatureNames ==
    \A h \in handoffs : h.scored => h.cols = h.feature_names

\* C2: for every distance d >= 0 each inference path computes the
\* distance_category that prepare_training_features computes for d.
C2_SameDistanceCategory ==
    "prepare_training_features" \in DOMAIN fout =>
        \A p \in DOMAIN fout :
            ~fout[p].raised =>
                fout[p].distance_category = fout["prepare_training_features"].distance_category

\* predict_ratings scores the station when it is the only candidate
ScoresAlone(pkg, st, user) ==
    LET r == predict_ratings(pkg, << st >>, user)
    IN ~r.raised /\ r.result # << >>

\* C3: in ML mode a station whose scoring fails is alone absent from the
\* result: every candidate the serving script can score is in its output,
\* whatever the other candidates are.
C3_OtherStationsStillReturned ==
    (pc = "exited" /\ stdin.valid /\ modelFile.state = "ok") =>
        \A i \in DOMAIN stdin.stations :
            ScoresAlone(modelFile.pkg, stdin.stations[i], stdin.user_preferences) =>
                /\ exit_status = 0
                /\ stdout # << >>
                /\ \E j \in DOMAIN stdout[1] : stdout[1][j].id = stdin.stations[i].id

\* C4: whenever is_trained is true and no call is in progress, the trainer's
\* model, scaler and charger_encoder come from the same training run or the
\* same artifact, and feature_names has the width they were fitted on.
C4_BundleFromOneRun ==
    (is_trained /\ call = NoCall) =>
        /\ model.run = scaler.run
        /\ scaler.run = charger_encoder.run
        /\ Len(feature_names) = scaler.n
        /\ Len(feature_names) = model.n

\* the latest tester call returned ML-mode recommendations
MLResult ==
    /\ recommendations.kind = "list"
    /\ \/ recommendations.op = "_get_ml_recommendations"
       \/ recommendations.op = "test_recommendations_for_location" /\ model_loaded

\* C5: in ML mode no more entries are returned than there are candidates, and
\* every returned predicted_rating is between 1.0 and 5.0, in the serving
\* script, in _get_ml_recommendations and in predict_station_rating.
C5_CountAndRatingBounded ==
    /\ (stdin.valid /\ pc = "exited" /\ stdout # << >>) =>
          /\ Len(stdout[1]) <= Len(stdin.stations)
          /\ \A j \in DOMAIN stdout[1] :
                stdout[1][j].predicted_rating >= 100 /\ stdout[1][j].predicted_rating <= 500
    /\ MLResult =>
          /\ Len(recommendations.items) <= Len(candidates.rows)
          /\ \A j \in DOMAIN recommendations.items :
                /\ recommendations.items[j].predicted_rating >= 100
                /\ recommendations.items[j].predicted_rating <= 500
    /\ response.outcome = "rating" =>
          response.rating >= 1000 /\ response.rating <= 5000

\* the serving script returned every candidate, one of them rated 5.0 from a
\* regressor output of 5.56
C5_Witness ==
    /\ pc = "exited" /\ stdout # << >>
    /\ Len(stdout[1]) = Len(stdin.stations)
    /\ model_package.model.bias = 5600
    /\ model_package.feature_names[1] = "distance_km"
    /\ \E j \in DOMAIN stdout[1] :
          stdout[1][j].distance = 1 /\ stdout[1][j].predicted_rating = 500

\* the candidates _get_ml_recommendations scored
ScoredRows ==
    { i \in DOMAIN candidates.rows : tester_scores(candidates.rows[i], user_prefs) }

\* C6: ML-mode output is in non-increasing order of predicted_rating; the
\* serving script returns all scored stations, _get_ml_recommendations the
\* min(3, number scored) best, none left out being rated above a returned one.
C6_OrderedByRating ==
    /\ (stdin.valid /\ pc = "exited" /\ stdout # << >>) =>
          /\ IsNonIncreasing(stdout[1], "predicted_rating")
          /\ (\E h \in handoffs : h.scored) => Len(stdout[1]) = Len(stdin.stations)
    /\ MLResult =>
          /\ IsNonIncreasing(recommendations.items, "predicted_rating")
          /\ Len(recommendations.items) = Min(3, Cardinality(ScoredRows))
          /\ \A i \in ScoredRows :
                (\E j \in DOMAIN recommendations.items :
                    recommendations.items[j].predicted_rating
                      < tester_entry(candidates.rows[i], user_prefs).predicted_rating)
                => \E k \in DOMAIN recommendations.items :
                      recommendations.items[k] = tester_entry(candidates.rows[i], user_prefs)

\* _get_ml_recommendations returned three of more scored candidates, the first
\* candidate, rated lowest, last
C6_Witness ==
    /\ MLResult
    /\ Cardinality(ScoredRows) > 3
    /\ Len(recommendations.items) = 3
    /\ recommendations.items[1].predicted_rating > recommendations.items[3].predicted_rating
    /\ recommendations.items[3].station_id = candidates.rows[1].id

\* C7: a missing or corrupt artifact is recoverable: the serving script, given
\* candidates, ends with status 0 and recommendations for them.
C7_LoadFailureFallsBack ==
    (pc = "exited" /\ stdin.valid /\ stdin.stations # << >> /\ modelFile.state # "ok") =>
        /\ exit_status = 0
        /\ stdout # << >>
        /\ stdout[1] # << >>

\* C8: with no candidate every recommending method of the tester returns an
\* empty list, not None and not an exception.
C8_EmptyCandidatesGiveEmptyList ==
    (/\ candidates.rows = << >>
     /\ recommendations.op \in {"test_recommendations_for_location",
                                "_get_ml_recommendations", "_get_simple_recommendations"}) =>
        /\ recommendations.kind = "list"
        /\ recommendations.items = << >>

\* C9: when standard input is not valid JSON the serving script writes nothing
\* to standard output and exits with a non-zero status after a diagnostic on
\* standard error.
C9_InvalidJsonFails ==
    ~stdin.valid =>
        /\ stdout = << >>
        /\ pc = "exited" => (exit_status # 0 /\ stderr > 0)

\* the serving script has exited on input that is not JSON
C9_Witness == ~stdin.valid /\ pc = "exited" /\ exit_status = 1 /\ stderr = 1

\* C10: every path yields finite availability_ratio, power_efficiency and
\* value_score without an exception: availability_ratio 0 when
\* total_connections is 0, power_efficiency 0 when the price is 0, value_score
\* 0 in both cases.
C10_EngineeredFeaturesFinite ==
    \A p \in DOMAIN fout :
        /\ ~fout[p].raised
        /\ IsFinite(fout[p].availability_ratio)
        /\ IsFinite(fout[p].power_efficiency)
        /\ IsFinite(fout[p].value_score)
        /\ fin.total_connections = 0 =>
              fout[p].availability_ratio = Num(0) /\ fout[p].value_score = Num(0)
        /\ fin.price = 0 =>
              fout[p].power_efficiency = Num(0) /\ fout[p].value_score = Num(0)

\* C11: a column of the stored feature_names that the inference code does not
\* compute is filled with 0 and the candidates are still scored and returned:
\* the serving script, given stations it can encode and such an artifact,
\* returns every one of them.
C11_UncomputedColumnFilled ==
    (/\ pc = "exited" /\ stdin.valid /\ stdin.stations # << >>
     /\ modelFile.state = "ok" /\ modelFile.pkg.absent = {}
     /\ ForeignColumn \in Range(modelFile.pkg.feature_names)
     /\ \A i \in DOMAIN stdin.stations :
           EncoderKnows(modelFile.pkg.charger_encoder, stdin.stations[i].charger_category)) =>
        /\ exit_status = 0
        /\ stdout # << >>
        /\ Len(stdout[1]) = Len(stdin.stations)

\* C12: on the HTTP surface is_trained never returns to false; it turns true
\* only inside a train request, and that request then answers 200; status
\* reports is_trained as it is; predict answers "model not trained" (400)
\* exactly while is_trained is false, and otherwise a predicted_rating (200)
\* or an error payload (500).
C12_StatusFollowsTraining ==
    [][ /\ is_trained => is_trained'
        /\ (surface = "http" /\ ~is_trained /\ is_trained') =>
              call.op = "train_final_model"
        /\ (surface = "http" /\ call # NoCall /\ call' = NoCall
              /\ is_trained' /\ ~call.trained_before) =>
              response'.request = "train_final_model" /\ response'.code = 200
        /\ (response' # response /\ response'.request = "status") =>
              (response'.outcome = "true" <=> is_trained)
        /\ (response' # response /\ response'.request = "predict") =>
              /\ (response'.code = 400 /\ response'.outcome = "not_trained") <=> ~is_trained
              /\ is_trained =>
                    \/ response'.code = 200 /\ response'.outcome = "rating"
                    \/ response'.code = 500 /\ response'.outcome = "raised"
      ]_vars

\* a train request has answered 200 and a later status reports true
C12_Witness ==
    /\ surface = "http" /\ call = NoCall /\ runs > 0
    /\ is_trained
    /\ response.request = "status" /\ response.outcome = "true"

\* C13: a record whose transform raises is skipped alone and the stations of
\* the remaining records are still returned; no batch of raw records, a batch
\* in which every record is skipped included, makes _process_raw_stations or
\* fetch_stations_by_location raise.
C13_BatchNeverRaises ==
    processed.kind # "none" =>
        /\ processed.kind = "frame"
        /\ raw_data # << >> =>
              \A i \in DOMAIN raw_data :
                 (/\ raw_data[i].defect = "none" /\ raw_data[i].IsOperational
                  /\ Truthy(raw_data[i].Latitude) /\ Truthy(raw_data[i].Longitude)
                  /\ \A j \in 1..(i - 1) : raw_data[j].ID # raw_data[i].ID
                  /\ processed.frame.columns) =>
                    \E k \in DOMAIN processed.frame.rows :
                       processed.frame.rows[k].station_id = raw_data[i].ID

\* The attributes _process_raw_stations normalizes, read off a returned row.
Normalized(row) ==
    [station_id |-> row.station_id, lat |-> row.lat, lng |-> row.lng,
     distance_from_search_center |-> row.distance_from_search_center, operator |-> row.operator,
     total_connections |-> row.total_connections, max_power_kw |-> row.max_power_kw,
     charger_category |-> row.charger_category, is_operational |-> row.is_operational]

\* The first record of the batch that was normalized under this identifier.
FirstOccurrence(batch, id) ==
    CHOOSE i \in DOMAIN batch :
        /\ batch[i].ID = id /\ transform_outcome(batch[i]) = "keep"
        /\ \A j \in 1..(i - 1) : ~(batch[j].ID = id /\ transform_outcome(batch[j]) = "keep")

\* C14: the result of _process_raw_stations holds no two stations with the
\* same station_id, only stations with is_operational = 1, and for an
\* identifier that occurs several times among the normalized records the
\* attributes of its first occurrence.
C14_FirstOccurrenceOperationalOnly ==
    (processed.kind = "frame" /\ processed.frame.columns) =>
        LET rows == processed.frame.rows
        IN  /\ \A k, l \in DOMAIN rows : k # l => rows[k].station_id # rows[l].station_id
            /\ \A k \in DOMAIN rows :
                  /\ rows[k].is_operational = 1
                  /\ \E i \in DOMAIN raw_data :
                        raw_data[i].ID = rows[k].station_id /\ transform_outcome(raw_data[i]) = "keep"
                  /\ Normalized(rows[k]) =
                        station_data(raw_data[FirstOccurrence(raw_data, rows[k].station_id)])

C14_Witness ==
    /\ processed.kind = "frame" /\ Len(processed.frame.rows) = 1
    /\ Len(raw_data) = 2 /\ raw_data[1].ID = raw_data[2].ID
    /\ transform_outcome(raw_data[1]) = "keep" /\ transform_outcome(raw_data[2]) = "keep"
    /\ raw_data[1].IsOperational /\ raw_data[2].IsOperational
    /\ station_data(raw_data[1]) # station_data(raw_data[2])
    /\ Normalized(processed.frame.rows[1]) = station_data(raw_data[1])

\* C15: a record is dropped at the coordinate check exactly when its Latitude
\* or Longitude is absent; a record that carries both coordinates, the value
\* 0 included, passes the check and is normalized.
C15_PresentCoordinatesPass ==
    (processed.kind = "frame" /\ processed.frame.columns) =>
        \A i \in DOMAIN raw_data :
           (/\ raw_data[i].defect = "none" /\ raw_data[i].IsOperational
            /\ raw_data[i].Latitude.present /\ raw_data[i].Longitude.present
            /\ \A j \in 1..(i - 1) : raw_data[j].ID # raw_data[i].ID) =>
              \E k \in DOMAIN processed.frame.rows :
                 /\ processed.frame.rows[k].station_id = raw_data[i].ID
                 /\ processed.frame.rows[k].lat = raw_data[i].Latitude.v
                 /\ processed.frame.rows[k].lng = raw_data[i].Longitude.v

\* C16: for every station _process_raw_stations produces, charger_category
\* follows from max_power_kw alone: superfast iff at least 50 kW, fast iff at
\* least 22 and below 50, slow iff below 22 (powers in tenths of a kW: 49.9
\* is fast, 50.0 superfast, 21.9 slow, 22.0 fast).
C16_CategoryFollowsPower ==
    (processed.kind = "frame" /\ processed.frame.columns) =>
        \A k \in DOMAIN processed.frame.rows :
           LET p   == processed.frame.rows[k].max_power_kw
               cat == processed.frame.rows[k].charger_category
           IN  /\ cat \in {"superfast", "fast", "slow"}
               /\ cat = "superfast" <=> p >= 500
               /\ cat = "fast" <=> (p >= 220 /\ p < 500)
               /\ cat = "slow" <=> p < 220

C16_Witness ==
    /\ processed.kind = "frame"
    /\ \E k, l \in DOMAIN processed.frame.rows :
          /\ processed.frame.rows[k].max_power_kw = 500
          /\ processed.frame.rows[k].charger_category = "superfast"
          /\ processed.frame.rows[l].max_power_kw = 499
          /\ processed.frame.rows[l].charger_category = "fast"

\* C17: every station returned satisfies the ranges of the data model:
\* total_connections >= 1; max_power_kw > 0 and equal to the largest PowerKW
\* of its connectors, or to 7 kW when no connector reports a positive power;
\* 0 <= available_slots <= total_connections; 0 <= reliability_score <= 1
\* (in hundredths).
C17_StationRanges ==
    (processed.kind = "frame" /\ processed.frame.columns) =>
        \A k \in DOMAIN processed.frame.rows :
           LET row       == processed.frame.rows[k]
               powers    == raw_data[FirstOccurrence(raw_data, row.station_id)].Connections
               positives == { powers[i] : i \in { j \in DOMAIN powers : powers[j] > 0 } }
           IN  /\ row.total_connections >= 1
               /\ row.max_power_kw > 0
               /\ positives = {} => row.max_power_kw = 70
               /\ positives # {} =>
                     /\ row.max_power_kw \in positives
                     /\ \A q \in positives : q <= row.max_power_kw
               /\ 0 <= row.available_slots /\ row.available_slots <= row.total_connections
               /\ 0 <= row.reliability_score /\ row.reliability_score <= 100

C17_Witness ==
    /\ processed.kind = "frame"
    /\ \E k \in DOMAIN processed.frame.rows :
          /\ raw_data[FirstOccurrence(raw_data, processed.frame.rows[k].station_id)].Connections = << >>
          /\ processed.frame.rows[k].total_connections = 1
          /\ processed.frame.rows[k].max_power_kw = 70
          /\ processed.frame.rows[k].available_slots \in 0..1

\* The columns _add_simulated_realtime_data adds, read off a frame.
SimulatedColumns(frame) ==
    [k \in DOMAIN frame.rows |->
        << frame.rows[k].available_slots, frame.rows[k].simulated_price_per_kwh,
           frame.rows[k].simulated_avg_wait_minutes, frame.rows[k].reliability_score >>]

\* C20: two invocations of _add_simulated_realtime_data over the identical
\* station list give identical available_slots, simulated_price_per_kwh,
\* simulated_avg_wait_minutes and reliability_score columns, whatever was
\* drawn from the generator before each invocation.
C20_SimulationRepeats ==
    (/\ processed.kind = "frame" /\ processed.frame.columns
     /\ previous.kind = "frame" /\ previous.frame.columns) =>
        SimulatedColumns(processed.frame) = SimulatedColumns(previous.frame)

C20_Witness ==
    /\ processed.kind = "frame" /\ previous.kind = "frame"
    /\ Len(processed.frame.rows) = 2 /\ Len(previous.frame.rows) = 2
    /\ previous.started.stream # 42 /\ previous.started.pos > 0
    /\ processed.started # previous.started
    /\ SimulatedColumns(processed.frame) = SimulatedColumns(previous.frame)

\* C18: for every booking _simulate_user_bookings produces, booking_completed
\* is 1 if and only if available_slots_at_booking > 0, and wait_time_minutes
\* is the chosen station's simulated_avg_wait_minutes when the booking is
\* completed and 0 otherwise.
C18_CompletedIffSlots ==
    booking # NoBooking =>
        LET station == CHOOSE s \in BookingStations : s.station_id = booking.station_id
        IN  /\ booking.booking_completed \in {0, 1}
            /\ booking.booking_completed = 1 <=> booking.available_slots_at_booking > 0
            /\ booking.booking_completed = 1 =>
                  booking.wait_time_minutes = station.simulated_avg_wait_minutes
            /\ booking.booking_completed = 0 => booking.wait_time_minutes = 0

C18_Witness ==
    /\ booking # NoBooking
    /\ booking.available_slots_at_booking = 0
    /\ booking.booking_completed = 0 /\ booking.wait_time_minutes = 0

\* C19: for every user, station, slot count, price and noise value, the
\* user_rating of a generated booking lies in [1.0, 5.0] (in tenths).
C19_RatingClamped ==
    booking # NoBooking => (10 <= booking.user_rating /\ booking.user_rating <= 50)

\* A booking whose rating before the clamp is at most 0.6: more than 20 km
\* away, no free slot, a price above 13 paid by a price-sensitive user.
C19_Witness ==
    /\ booking # NoBooking /\ booking.user_rating = 10
    /\ booking.distance_km > 20 /\ booking.available_slots_at_booking = 0
    /\ booking.price_paid_per_kwh > 1300 /\ booking.user_id = 1

\* The columns recommend.predict_ratings simulates for a station list: after
\* np.random.seed(42), randint(0, total_connections + 1) for every row, then
\* uniform(0.75, 0.95, len(stations_df)).
ServingSimulation(rows) ==
    [i \in DOMAIN rows |->
        [available_slots |-> randint(i, rows[i].total_connections + 1),
         reliability_score |-> uniform_75_95(Len(rows) + i)]]

\* C21: for the same station list the serving-side simulation of
\* predict_ratings gives each station the available_slots and the
\* reliability_score that _add_simulated_realtime_data gave it.
C21_ServingMatchesTrainingSimulation ==
    (processed.kind = "frame" /\ processed.frame.columns) =>
        \A k \in DOMAIN processed.frame.rows :
           /\ ServingSimulation(processed.frame.rows)[k].available_slots =
                 processed.frame.rows[k].available_slots
           /\ ServingSimulation(processed.frame.rows)[k].reliability_score =
                 processed.frame.rows[k].reliability_score

\* The stations {1 km, superfast, price 12, 2 of 2 slots}, {10 km, fast,
\* price 9, 0 of 3 slots}, {40 km, slow, price 7, 3 of 4 slots}, operational,
\* each with a max_power_kw of its category, in any order.
IsScenario(frame) ==
    /\ frame.columns /\ Len(frame.rows) = 3
    /\ \E a, b, c \in DOMAIN frame.rows :
          /\ frame.rows[a].id = 1 /\ frame.rows[a].distance = 1
          /\ frame.rows[a].charger_category = "superfast" /\ frame.rows[a].max_power_kw >= 50
          /\ frame.rows[a].price = 12 /\ frame.rows[a].available_slots = 2
          /\ frame.rows[a].total_connections = 2 /\ frame.rows[a].is_operational = 1
          /\ frame.rows[b].id = 2 /\ frame.rows[b].distance = 10
          /\ frame.rows[b].charger_category = "fast"
          /\ frame.rows[b].max_power_kw >= 22 /\ frame.rows[b].max_power_kw < 50
          /\ frame.rows[b].price = 9 /\ frame.rows[b].available_slots = 0
          /\ frame.rows[b].total_connections = 3 /\ frame.rows[b].is_operational = 1
          /\ frame.rows[c].id = 3 /\ frame.rows[c].distance = 40
          /\ frame.rows[c].charger_category = "slow"
          /\ frame.rows[c].max_power_kw > 0 /\ frame.rows[c].max_power_kw < 22
          /\ frame.rows[c].price = 7 /\ frame.rows[c].available_slots = 3
          /\ frame.rows[c].total_connections = 4 /\ frame.rows[c].is_operational = 1

\* C22: under rule-based scoring for a user who is not price-sensitive and
\* has a 72 kWh battery, the three stations of the scenario are ranked with
\* the 1 km superfast station first and the station without a free slot last.
C22_ScenarioRanking ==
    (/\ recommendations.op = "_get_simple_recommendations"
     /\ user_prefs = User(72, 0) /\ IsScenario(candidates)) =>
        /\ recommendations.kind = "list"
        /\ Len(recommendations.items) = 3
        /\ recommendations.items[1].station_id = 1
        /\ recommendations.items[3].station_id = 2

C22_Witness ==
    /\ recommendations.op = "_get_simple_recommendations"
    /\ user_prefs = User(72, 0) /\ IsScenario(candidates)
    /\ \E i \in 1..3 : candidates.rows[i].max_power_kw = 50
    /\ \E i \in 1..3 : candidates.rows[i].max_power_kw = 49
    /\ \E i \in 1..3 : candidates.rows[i].max_power_kw = 21
    /\ [i \in 1..3 |-> recommendations.items[i].station_id] = << 1, 3, 2 >>

\* C23: before noise and clamping the rating is 3.0 plus independent terms:
\* distance +1.0 below 3 km, +0.5 below 8 km, -0.7 above 20 km, else 0 (so
\* exactly 3 gives +0.5, exactly 8 and exactly 20 give 0); slots -1.5 for 0,
\* -0.2 for 1, 0 for 2, +0.6 for 3 or more; price, for a price-sensitive user
\* only, +0.5 below 8 and -0.6 above 13; brand +0.2 for a premium operator.
C23_RatingTerms ==
    booking # NoBooking =>
        LET user     == CHOOSE u \in BookingUsers : u.user_id = booking.user_id
            station  == CHOOSE s \in BookingStations : s.station_id = booking.station_id
            d        == booking.distance_km
            slots    == booking.available_slots_at_booking
            price    == booking.price_paid_per_kwh
            distance_term == CASE d < 3 -> 1000
                               [] d >= 3 /\ d < 8 -> 500
                               [] d >= 8 /\ d <= 20 -> 0
                               [] d > 20 -> -700
            slot_term == CASE slots = 0 -> -1500
                           [] slots = 1 -> -200
                           [] slots = 2 -> 0
                           [] slots >= 3 -> 600
            price_term == CASE user.is_price_sensitive = 0 -> 0
                            [] user.is_price_sensitive = 1 /\ price < 800 -> 500
                            [] user.is_price_sensitive = 1 /\ price > 1300 -> -600
                            [] OTHER -> 0
            brand_term == IF station.operator \in {"Tata Power", "Ather Grid"} THEN 200 ELSE 0
        IN  booking.base_rating = 3000 + distance_term + slot_term + price_term + brand_term

C23_Witness ==
    /\ booking # NoBooking
    /\ booking.distance_km = 3 /\ booking.available_slots_at_booking = 2
    /\ booking.user_id = 2 /\ booking.station_id = 4
    /\ booking.base_rating = 3500

\* The bookings a user contributed.
BookingsOf(id) == SelectSeq(bookings, LAMBDA b : b.booking.user_id = id)

\* C24: every generated booking references a station less than 50 km from the
\* user's home; a user with such a station contributes exactly
\* interactions_per_user bookings, a user without one contributes none and
\* generation goes on with the next user; booking_ids are pairwise distinct.
C24_BookingsWithinReach ==
    /\ \A i \in DOMAIN bookings :
          /\ users_df[bookings[i].booking.user_id].km[bookings[i].booking.station_id] < 50
          /\ bookings[i].booking.distance_km =
                users_df[bookings[i].booking.user_id].km[bookings[i].booking.station_id]
    /\ \A i, j \in DOMAIN bookings : i # j => bookings[i].booking_id # bookings[j].booking_id
    /\ cursor.phase \in {"idle", "users", "saved"}
    /\ cursor.phase = "saved" =>
          \A u \in DOMAIN users_df :
             Len(BookingsOf(users_df[u].user_id)) =
                IF \E s \in DOMAIN users_df[u].km : users_df[u].km[s] < 50
                THEN InteractionsPerUser ELSE 0

C24_Witness ==
    /\ cursor.phase = "saved"
    /\ \A s \in DOMAIN users_df[1].km : users_df[1].km[s] >= 50
    /\ \E s \in DOMAIN users_df[2].km : users_df[2].km[s] >= 50
    /\ Len(BookingsOf(1)) = 0
    /\ Len(BookingsOf(2)) = InteractionsPerUser

\* C25: the fixed seed is applied immediately before each batch of
\* pseudo-random generation, booking sampling included, so the values of a
\* batch do not depend on the draws made earlier in the process: the i-th
\* booking of a batch is the one the seeded stream gives at its place.
C25_BookingsDrawnFromSeed ==
    \A i \in DOMAIN bookings :
       bookings[i] =
          generated_booking(users_df[bookings[i].booking_id[1]], bookings[i].booking_id[2],
                            Advance(seed42(rng), 4 * (i - 1)))

\* 30/(distance+1) + 25*available_slots + 20/(price+1) + 15*(max_power_kw/50)
\* + 10*is_operational, + 15/(price+1) for a price-sensitive user, + 10 for a
\* battery above 50 kWh at a fast or superfast station; in millionths.
StatedScore(row, user) ==
    (30000000 \div (row.distance + 1)) + 25000000 * row.available_slots
    + (20000000 \div (row.price + 1)) + ((15000000 * row.max_power_kw) \div 50)
    + 10000000 * row.is_operational
    + (IF user.is_price_sensitive = 1 THEN 15000000 \div (row.price + 1) ELSE 0)
    + (IF user.battery_capacity > 50 /\ row.charger_category \in {"fast", "superfast"}
       THEN 10000000 ELSE 0)

\* C26: in rule-based mode each candidate's score is the stated sum, and the
\* result is the min(3, number of candidates) candidates with the highest
\* scores, in non-increasing score order.
C26_RuleScoreTopThree ==
    (recommendations.op = "_get_simple_recommendations" /\ candidates.columns) =>
        LET rows  == candidates.rows
            items == recommendations.items
        IN  /\ recommendations.kind = "list"
            /\ Len(items) = (IF Len(rows) < 3 THEN Len(rows) ELSE 3)
            /\ \A i \in DOMAIN items :
                  \E k \in DOMAIN rows :
                     /\ rows[k].id = items[i].station_id
                     /\ items[i].score = StatedScore(rows[k], user_prefs)
            /\ \A i \in 1..(Len(items) - 1) : items[i].score >= items[i + 1].score
            /\ \A k \in DOMAIN rows :
                  \/ \E i \in DOMAIN items : items[i].station_id = rows[k].id
                  \/ \A i \in DOMAIN items : items[i].score >= StatedScore(rows[k], user_prefs)

C26_Witness ==
    /\ recommendations.op = "_get_simple_recommendations" /\ recommendations.kind = "list"
    /\ user_prefs = User(72, 1)
    /\ Len(candidates.rows) = 4 /\ Len(recommendations.items) = 3
    /\ candidates.rows[1].id = 2 /\ candidates.rows[4].id = 1
    /\ recommendations.items[1].station_id = 1
    /\ \A i \in 1..3 : recommendations.items[i].station_id # 2

\* C27: with no booking timestamp and the time features in the stored
\* feature names, every inference path sets is_weekend = 0 and
\* hour_of_day = 12.
C27_WeekdayNoonDefault ==
    \A p \in DOMAIN fout \ {"prepare_training_features"} :
        (/\ ~fout[p].raised
         /\ "is_weekend" \in Range(feature_names) /\ "hour_of_day" \in Range(feature_names)) =>
            fout[p].time = << F(0), F(12) >>

\* C28: a trainer operation that ends in failure leaves model, scaler,
\* charger_encoder, feature_names and is_trained as they were before the
\* call: a training that returns False or raises, and load_trained_model
\* returning False.
C28_FailureLeavesTrainerUnchanged ==
    [][ /\ (call # NoCall /\ call' = NoCall /\ response'.outcome \in {"False", "raised"}) =>
              Bundle' = call.before
        /\ (/\ call = NoCall /\ call' = NoCall
            /\ response'.request = "load_trained_model" /\ response'.outcome = "False") =>
              Bundle' = Bundle
      ]_vars

\* C29: when a record of the batch with a given station_id is normalized and
\* is operational, the output holds that station_id; an earlier
\* non-operational record of the same identifier does not suppress it.
C29_OperationalRecordSurvives ==
    (processed.kind = "frame" /\ processed.frame.columns) =>
        \A i \in DOMAIN raw_data :
           (transform_outcome(raw_data[i]) = "keep" /\ raw_data[i].IsOperational) =>
              \E k \in DOMAIN processed.frame.rows :
                 processed.frame.rows[k].station_id = raw_data[i].ID

\* C30: a train request naming an algorithm other than 'random_forest' or
\* 'linear' ends in an error and never reports success, whether or not the
\* trainer holds a model from an earlier training, through train_model and
\* through train_final_model and POST /train; it does not retrain the
\* regressor selected earlier.
C30_UnknownAlgorithmRejected ==
    [][ (/\ call # NoCall /\ call' = NoCall
         /\ call.op \in {"train_model", "train_final_model"}
         /\ call.algorithm \notin {"random_forest", "linear"}) =>
            /\ response'.outcome \in {"raised", "False"}
            /\ response'.code # 200
            /\ model' = call.before[1]
      ]_vars

====
